---- MODULE Spec2Model ----
(***************************************************************************)
(* Model of the call-agent server (src/server/index.js):                   *)
(*   - the /outbound-media-stream bridge between a telephony socket and    *)
(*     the AI socket (SpecBridge),                                         *)
(*   - the conversation registry and the reconciliation poller (SpecPoll). *)
(* Every callback of the single-threaded event loop is one action; an      *)
(* async function is cut at each await that really suspends (a fetch).     *)
(***************************************************************************)
EXTENDS Integers, Sequences, FiniteSets, TLC

(***************************************************************************)
(* Bridge: bounds and value sets                                           *)
(***************************************************************************)
\* Telephony sockets accepted by the route: the ringing-phase socket and the
\* socket opened on answer of one call, or the sockets of two calls.
Sockets == {1, 2}
\* Call ids the transport can report in `start`.
Calls == {"CA1"}
\* The id of a second call in progress at the same time
OtherCalls == {"CA2"}
AllCalls == Calls \cup OtherCalls
\* Several calls at once: the call each telephony socket was opened for
CallOf == [s \in Sockets |-> IF s = 1 THEN "CA1" ELSE "CA2"]
\* Largest number of AI audio frames delivered to one leg.
MaxAudio == 3
\* Largest number of setup attempts of one leg (routes/websocket.js retries
\* after a failure, so the count has no bound of its own).
MaxSetups == 3
\* Largest number of messages sent on one AI session
MaxSent == 3
\* Largest number of clear frames sent to one telephony socket
MaxClears == 1
\* Indices of the AI sockets a run can construct
AiIds == 1..(2 * MaxSetups)
\* null
Null == "null"
\* An AI `audio` message without a chunk
NoPayload == 0

VARIABLES
    \* ---- per telephony socket (closure variables of the route handler)
    wsState,              \* "idle" | "open" | "closing" | "closed"
    streamSid,            \* let streamSid
    callSid,              \* let callSid
    streamStarted,        \* let streamStarted
    elevenLabsWs,         \* let elevenLabsWs: index into ai, 0 = null
    audioBuffer,          \* let audioBuffer
    agentConfig,          \* let agentConfig
    timerPending,         \* the setTimeout(..., 1000) of the connection
    pendingUrl,           \* setupElevenLabs invocations awaiting getSignedUrl()
    twilioOut,            \* frames sent with ws.socket.send
    \* ---- module level
    ai,                   \* every AI WebSocket ever constructed: its leg, its
                          \* readyState, the messages sent on it, whether the
                          \* 100 ms timer of its open handler is pending, and
                          \* the promise of its connect (routes/websocket.js)
    ringingPhaseWebSocket,\* let ringingPhaseWebSocket: socket, 0 = null
    activeElevenLabsCalls,\* const activeElevenLabsCalls
    activeWebSocketConnections, \* const activeWebSocketConnections: callSid ->
                          \* { twilioWs, elevenLabsWs }, twilioWs 0 = no entry
    globalAgentConfig,    \* let globalAgentConfig
    \* ---- routes/websocket.js only
    elevenLabsConnected,  \* let elevenLabsConnected (per telephony socket)
    connTimer,            \* AI sockets whose 10 s open timeout is still pending
    \* ---- history (not program state)
    preStart,             \* audio payloads that arrived before `start`, in order
    nAudio,               \* audio frames delivered so far (labels the frames)
    attempts,             \* setup attempts started (guard of setupElevenLabs passed)
    failed,               \* a setup attempt of the leg has failed
    callStatus,           \* the call_status broadcasts of the last bridge step
    stale                 \* sockets that were open and unanswered when `start`
                          \* arrived on another socket of the call

VARIABLES
    \* ---- registry and poller (module level of server/index.js)
    activeInboundConversations, \* const activeInboundConversations (Map)
    conversationCache,    \* let conversationCache: lastEventIndex, -1 = no entry
    lastConversationCount,\* global.lastConversationCount
    deleteTimers,         \* pending setTimeout(delete, ...) callbacks per id
    now,                  \* the clock, in minutes
    polls,                \* pollActiveConversations invocations in flight
    \* ---- the provider
    provEvents,           \* the event list the provider holds for a conversation
    \* ---- what the last step did (outputs, not program state)
    emitted,              \* the broadcastTranscript calls of the last step
    fetched,              \* the id whose detail the last step requested
    tickIds,              \* what the last step reported of a tick: its end and the
                          \* ids of its snapshot, a failed list fetch, the active
                          \* conversations dropped by an empty snapshot
    detail,               \* the detail the last step processed: id, length, cursor before
    started,              \* the record the last step's startInboundConversation returned
    notFound,             \* the call of the last step that looked up an id the
                          \* registry does not track
    \* ---- history
    transcriptLog,         \* transcript broadcasts per id since its cursor was created
    heard,                \* history: the highest index of the provider's list
                          \* consumed so far for the conversation registered
                          \* under each id, -1 = none
    endedAnnounced        \* history: the ids for which 'inbound_call_ended' was
                          \* broadcast since the conversation was registered

pollVars == <<activeInboundConversations, conversationCache,
              lastConversationCount, deleteTimers, now, polls, provEvents,
              emitted, fetched, tickIds, detail, started, notFound,
              transcriptLog, heard, endedAnnounced>>

bridgeVars == <<wsState, streamSid, callSid, streamStarted, elevenLabsWs,
                audioBuffer, agentConfig, timerPending, pendingUrl, twilioOut,
                ai, ringingPhaseWebSocket, activeElevenLabsCalls,
                globalAgentConfig, elevenLabsConnected, connTimer,
                preStart, nAudio, attempts, failed, callStatus, stale,
                activeWebSocketConnections>>

VARIABLES
    \* ---- observers of the transcript channel (module level)
    transcriptClients,    \* const transcriptClients (Set), in insertion order
    clientReadyState,     \* readyState of every observer socket
    \* ---- what the last step did (output, not program state)
    lastBroadcast         \* the last step's broadcastTranscript call: the
                          \* subscribers before it, the clients whose send
                          \* threw, the frames each client received, and
                          \* whether the call itself threw

observerVars == <<transcriptClients, clientReadyState, lastBroadcast>>

VARIABLES
    \* ---- POST /api/calls/hangup and the call-control provider
    twilioCalls,          \* the provider's status of every call
    hangups               \* hangup requests: position in the handler, the
                          \* callSid of the body, the fetched status, the
                          \* update issued and the reply sent

hangupVars == <<twilioCalls, hangups>>

VARIABLES
    \* ---- the browser client's transcript socket (client/js/callManager.js)
    clientSockets,        \* every WebSocket the client constructed: its
                          \* readyState and the code of its close event
    transcriptWs,         \* this.transcriptWs: index into clientSockets, 0 = null
    reconnectTimers       \* pending setTimeout(..., 3000): seconds left of each

VARIABLES
    \* ---- the browser client's call (client/js/callManager.js)
    isCallActive,         \* this.isCallActive
    thisCallSid,          \* this.callSid
    currentState,         \* this.currentState
    mediaWs,              \* this.mediaWs: "open" or null
    pendingCall,          \* the fetch of makeCall is awaiting its response
    hangUps,              \* hangUpCall invocations: awaiting the server or not
    hungUp                \* the hangUpCall that returned in the last step: whether
                          \* the call was active when it was invoked, and the
                          \* outcome of its request (output, not program state)

callVars == <<isCallActive, thisCallSid, currentState, mediaWs, pendingCall,
              hangUps, hungUp>>

clientVars == <<clientSockets, transcriptWs, reconnectTimers, callVars>>

vars == <<bridgeVars, pollVars, observerVars, hangupVars, clientVars>>

\* the transport gives every stream its own id
StreamOf(s) == <<"MZ1", "MZ2", "MZ3">>[s]

MediaFrame(sid, p) == [event |-> "media", streamSid |-> sid, payload |-> p]

RECURSIVE FlushReversed(_, _)
\* Flush as a last-in-first-out drain would send the frames
FlushReversed(buf, sid) ==
    IF buf = <<>> THEN <<>>
    ELSE FlushReversed(Tail(buf), sid) \o <<MediaFrame(sid, Head(buf))>>

RECURSIVE Flush(_, _)
\* audioBuffer.forEach(payload => ws.socket.send(media frame))
Flush(buf, sid) ==
    IF buf = <<>> THEN <<>>
    ELSE <<MediaFrame(sid, Head(buf))>> \o Flush(Tail(buf), sid)

AiOf(s) == {a \in 1..Len(ai) : ai[a].leg = s}

\* JSON.stringify({ event: "clear", streamSid })
ClearFrame(sid) == [event |-> "clear", streamSid |-> sid, payload |-> NoPayload]

\* The clear frames among the frames out
Clears(out) == {i \in 1..Len(out) : out[i].event = "clear"}

\* The interruption handler as it would be without the if (streamSid) test
ClearAllowedAlways(sid) == TRUE

\* if (streamSid) of the interruption handler
ClearAllowed(sid) == sid # Null

\* The interruption handler of the leg s: a clear frame for the telephony
\* socket once the stream id is known
SendClear(s) ==
    IF ClearAllowed(streamSid[s]) /\ wsState[s] = "open"
    THEN [twilioOut EXCEPT ![s] = Append(@, ClearFrame(streamSid[s]))]
    ELSE twilioOut

\* activeWebSocketConnections.has(callSid) is false
NoConn == [twilioWs |-> 0, elevenLabsWs |-> 0]

InitBridge ==
    /\ wsState = [s \in Sockets |-> "idle"]
    /\ streamSid = [s \in Sockets |-> Null]
    /\ callSid = [s \in Sockets |-> Null]
    /\ streamStarted = [s \in Sockets |-> FALSE]
    /\ elevenLabsWs = [s \in Sockets |-> 0]
    /\ audioBuffer = [s \in Sockets |-> <<>>]
    /\ agentConfig = [s \in Sockets |-> "default"]
    /\ timerPending = [s \in Sockets |-> FALSE]
    /\ pendingUrl = [s \in Sockets |-> 0]
    /\ twilioOut = [s \in Sockets |-> <<>>]
    /\ ai = <<>>
    /\ ringingPhaseWebSocket = 0
    /\ activeElevenLabsCalls = {}
    /\ globalAgentConfig = "default"
    /\ elevenLabsConnected = [s \in Sockets |-> FALSE]
    /\ connTimer = {}
    /\ preStart = [s \in Sockets |-> <<>>]
    /\ nAudio = 0
    /\ attempts = [s \in Sockets |-> 0]
    /\ failed = [s \in Sockets |-> FALSE]
    /\ callStatus = <<>>
    /\ stale = {}
    /\ activeWebSocketConnections = [c \in AllCalls |-> NoConn]

\* Event ids the provider's keepalive pings carry
PingIds == {"e1", "e2"}

\* JSON.stringify({ type: "pong", event_id })
Pong == [e \in PingIds |-> IF e = "e1" THEN "pong e1" ELSE "pong e2"]

\* new WebSocket(signedUrl) for the leg s
NewAi(s) == [leg |-> s, st |-> "connecting", sent |-> <<>>, retry |-> FALSE,
             connect |-> "none"]

\* elevenLabsWs.send(msg) guarded by readyState === WebSocket.OPEN, where
\* elevenLabsWs is the closure variable of the leg s
SendIfOpen(sockets, s, msg) ==
    LET w == elevenLabsWs[s]
    IN IF w # 0 /\ sockets[w].st = "open"
       THEN [sockets EXCEPT ![w].sent = Append(@, msg)]
       ELSE sockets

\* setupElevenLabs up to its first await: TRUE iff the guard lets it through
SetupPasses(s) == elevenLabsWs[s] = 0

\* The route handler: a telephony socket connects
Connect(s) ==
    /\ wsState[s] = "idle"
    /\ \A x \in Sockets : x < s => wsState[x] # "idle"   \* sockets are numbered in connection order
    /\ wsState' = [wsState EXCEPT ![s] = "open"]
    /\ agentConfig' = [agentConfig EXCEPT ![s] = globalAgentConfig]
    /\ timerPending' = [timerPending EXCEPT ![s] = TRUE]
    /\ callStatus' = <<>>
    /\ UNCHANGED <<pollVars, observerVars, hangupVars, clientVars, activeWebSocketConnections, streamSid, callSid, streamStarted, elevenLabsWs, audioBuffer,
                   pendingUrl, twilioOut, ai, ringingPhaseWebSocket,
                   activeElevenLabsCalls, globalAgentConfig, preStart, nAudio,
                   attempts, failed, stale,
                   elevenLabsConnected, connTimer>>

\* The setTimeout(..., 1000) callback; nothing ever cancels it
DelayedTimer(s) ==
    /\ timerPending[s]
    /\ timerPending' = [timerPending EXCEPT ![s] = FALSE]
    /\ LET ringing == elevenLabsWs[s] = 0 /\ callSid[s] = Null
           setup == /\ elevenLabsWs[s] = 0
                    /\ callSid[s] # Null
                    /\ callSid[s] \notin activeElevenLabsCalls
                    /\ SetupPasses(s)
       IN /\ ringingPhaseWebSocket' = IF ringing THEN s ELSE ringingPhaseWebSocket
          /\ pendingUrl' = IF setup THEN [pendingUrl EXCEPT ![s] = @ + 1]
                           ELSE pendingUrl
          /\ attempts' = IF setup THEN [attempts EXCEPT ![s] = @ + 1] ELSE attempts
    /\ callStatus' = <<>>
    /\ UNCHANGED <<pollVars, observerVars, hangupVars, clientVars, activeWebSocketConnections, wsState, streamSid, callSid, streamStarted, elevenLabsWs,
                   audioBuffer, agentConfig, twilioOut, ai, activeElevenLabsCalls,
                   globalAgentConfig, preStart, nAudio, failed, stale,
                   elevenLabsConnected, connTimer>>

\* ws.socket.on("message"): {type: "configure_agent"}
\* (msg.prompt || globalAgentConfig.prompt: an empty field keeps the old value)
ConfigureAgent(s, cfg) ==
    /\ wsState[s] = "open"
    /\ LET new == IF cfg = Null THEN globalAgentConfig ELSE cfg
       IN /\ globalAgentConfig' = new
          /\ agentConfig' = [agentConfig EXCEPT ![s] = new]
    /\ callStatus' = <<>>
    /\ UNCHANGED <<pollVars, observerVars, hangupVars, clientVars, activeWebSocketConnections, wsState, streamSid, callSid, streamStarted, elevenLabsWs,
                   audioBuffer, timerPending, pendingUrl, twilioOut, ai,
                   ringingPhaseWebSocket, activeElevenLabsCalls, preStart, nAudio,
                   attempts, failed, stale,
                   elevenLabsConnected, connTimer>>

\* ws.socket.on("message"): event "start"
Start(s, cid) ==
    /\ wsState[s] = "open"
    /\ ~streamStarted[s]
    /\ streamSid' = [streamSid EXCEPT ![s] = StreamOf(s)]
    /\ callSid' = [callSid EXCEPT ![s] = cid]
    /\ streamStarted' = [streamStarted EXCEPT ![s] = TRUE]
    /\ LET r == ringingPhaseWebSocket
           closeRinging == r # 0 /\ r # s
           setup == /\ elevenLabsWs[s] = 0
                    /\ cid \notin activeElevenLabsCalls
                    /\ SetupPasses(s)
       IN /\ wsState' = IF closeRinging /\ wsState[r] = "open"
                        THEN [wsState EXCEPT ![r] = "closing"] ELSE wsState
          /\ ringingPhaseWebSocket' = IF closeRinging THEN 0 ELSE r
          /\ pendingUrl' = IF setup THEN [pendingUrl EXCEPT ![s] = @ + 1]
                           ELSE pendingUrl
          /\ attempts' = IF setup THEN [attempts EXCEPT ![s] = @ + 1] ELSE attempts
          /\ activeElevenLabsCalls' =
                IF elevenLabsWs[s] # 0 THEN activeElevenLabsCalls \cup {cid}
                ELSE activeElevenLabsCalls
    /\ twilioOut' = [twilioOut EXCEPT ![s] = @ \o Flush(audioBuffer[s], StreamOf(s))]
    /\ audioBuffer' = [audioBuffer EXCEPT ![s] = <<>>]
    /\ stale' = stale \cup {x \in Sockets \ {s} :
                              wsState[x] = "open" /\ ~streamStarted[x]}
    /\ activeWebSocketConnections' =
          [activeWebSocketConnections EXCEPT
              ![cid] = [twilioWs |-> s, elevenLabsWs |-> elevenLabsWs[s]]]
    /\ callStatus' = <<"Call connected">>
    /\ UNCHANGED <<pollVars, observerVars, hangupVars, clientVars, elevenLabsWs, agentConfig, timerPending, ai, globalAgentConfig,
                   preStart, nAudio, failed,
                   elevenLabsConnected, connTimer>>

\* setupElevenLabs resumes: getSignedUrl() resolved, new WebSocket(signedUrl)
SignedUrlOk(s) ==
    /\ pendingUrl[s] > 0
    /\ pendingUrl' = [pendingUrl EXCEPT ![s] = @ - 1]
    /\ ai' = Append(ai, NewAi(s))
    /\ elevenLabsWs' = [elevenLabsWs EXCEPT ![s] = Len(ai) + 1]
    /\ callStatus' = <<>>
    /\ UNCHANGED <<pollVars, observerVars, hangupVars, clientVars, activeWebSocketConnections, wsState, streamSid, callSid, streamStarted, audioBuffer,
                   agentConfig, timerPending, twilioOut, ringingPhaseWebSocket,
                   activeElevenLabsCalls, globalAgentConfig, preStart, nAudio,
                   attempts, failed, stale,
                   elevenLabsConnected, connTimer>>

\* setupElevenLabs resumes: getSignedUrl() threw; the catch only logs
SignedUrlFail(s) ==
    /\ pendingUrl[s] > 0
    /\ pendingUrl' = [pendingUrl EXCEPT ![s] = @ - 1]
    /\ failed' = [failed EXCEPT ![s] = TRUE]
    /\ callStatus' = <<>>
    /\ UNCHANGED <<pollVars, observerVars, hangupVars, clientVars, activeWebSocketConnections, wsState, streamSid, callSid, streamStarted, elevenLabsWs,
                   audioBuffer, agentConfig, timerPending, twilioOut, ai,
                   ringingPhaseWebSocket, activeElevenLabsCalls, globalAgentConfig,
                   preStart, nAudio, attempts, stale,
                   elevenLabsConnected, connTimer>>

\* elevenLabsWs.on("open")
AiOpen(a) ==
    /\ a \in 1..Len(ai)
    /\ ai[a].st = "connecting"
    /\ LET s == ai[a].leg
           opened == [ai EXCEPT ![a].st = "open"]
       IN /\ activeElevenLabsCalls' =
                IF callSid[s] # Null THEN activeElevenLabsCalls \cup {callSid[s]}
                ELSE activeElevenLabsCalls
          \* the handler sends on the closure variable elevenLabsWs, which
          \* is the socket of the latest setup, not necessarily this one
          /\ ai' = IF opened[elevenLabsWs[s]].st = "open"
                   THEN SendIfOpen(opened, s, "init")
                   ELSE [opened EXCEPT ![a].retry = TRUE]
          /\ activeWebSocketConnections' =
                IF callSid[s] # Null
                   /\ activeWebSocketConnections[callSid[s]] # NoConn
                THEN [activeWebSocketConnections EXCEPT
                        ![callSid[s]].elevenLabsWs = elevenLabsWs[s]]
                ELSE activeWebSocketConnections
    /\ callStatus' = <<>>
    /\ UNCHANGED <<pollVars, observerVars, hangupVars, clientVars, wsState, streamSid, callSid, streamStarted, elevenLabsWs,
                   audioBuffer, agentConfig, timerPending, pendingUrl, twilioOut,
                   ringingPhaseWebSocket, globalAgentConfig, preStart, nAudio,
                   attempts, failed, stale,
                   elevenLabsConnected, connTimer>>

\* elevenLabsWs.on("error") followed by its close: the socket is gone
AiError(a) ==
    /\ a \in 1..Len(ai)
    /\ ai[a].st \in {"connecting", "open"}
    /\ ai' = [ai EXCEPT ![a].st = "closed"]
    /\ failed' = IF ai[a].st = "connecting"
                 THEN [failed EXCEPT ![ai[a].leg] = TRUE] ELSE failed
    /\ callStatus' = <<"Connection error occurred", "AI service disconnected">>
    /\ UNCHANGED <<pollVars, observerVars, hangupVars, clientVars, activeWebSocketConnections, wsState, streamSid, callSid, streamStarted, elevenLabsWs,
                   audioBuffer, agentConfig, timerPending, pendingUrl, twilioOut,
                   ringingPhaseWebSocket, activeElevenLabsCalls, globalAgentConfig,
                   preStart, nAudio, attempts, stale,
                   elevenLabsConnected, connTimer>>

\* elevenLabsWs.on("message"): case "audio"
AiAudio(a, p) ==
    /\ a \in 1..Len(ai)
    /\ ai[a].st = "open"
    /\ nAudio < MaxAudio
    /\ LET s == ai[a].leg
       IN IF p = NoPayload
          THEN UNCHANGED <<twilioOut, audioBuffer, preStart, nAudio,
                   elevenLabsConnected, connTimer>>
          ELSE /\ nAudio' = nAudio + 1
               /\ preStart' = IF streamStarted[s] THEN preStart
                              ELSE [preStart EXCEPT ![s] = Append(@, p)]
               /\ IF streamStarted[s] /\ streamSid[s] # Null
                  THEN /\ twilioOut' =
                            IF wsState[s] = "open"
                            THEN [twilioOut EXCEPT
                                    ![s] = Append(@, MediaFrame(streamSid[s], p))]
                            ELSE twilioOut
                       /\ UNCHANGED audioBuffer
                  ELSE /\ audioBuffer' = [audioBuffer EXCEPT ![s] = Append(@, p)]
                       /\ UNCHANGED twilioOut
    /\ callStatus' = <<>>
    /\ UNCHANGED <<pollVars, observerVars, hangupVars, clientVars, activeWebSocketConnections, wsState, streamSid, callSid, streamStarted, elevenLabsWs,
                   agentConfig, timerPending, pendingUrl, ai, ringingPhaseWebSocket,
                   activeElevenLabsCalls, globalAgentConfig, attempts, failed, stale,
                   elevenLabsConnected, connTimer>>

\* The setTimeout(..., 100) of the open handler
InitRetry(a) ==
    /\ a \in 1..Len(ai)
    /\ ai[a].retry
    /\ ai' = SendIfOpen([ai EXCEPT ![a].retry = FALSE], ai[a].leg, "init")
    /\ callStatus' = <<>>
    /\ UNCHANGED <<pollVars, observerVars, hangupVars, clientVars, activeWebSocketConnections, wsState, streamSid, callSid, streamStarted, elevenLabsWs,
                   audioBuffer, agentConfig, timerPending, pendingUrl, twilioOut,
                   ringingPhaseWebSocket, activeElevenLabsCalls, globalAgentConfig,
                   preStart, nAudio, attempts, failed, stale,
                   elevenLabsConnected, connTimer>>

\* elevenLabsWs.on("message"): case "ping" with an event id; a send on a
\* socket that is not open throws into the handler's catch
AiPing(a, e) ==
    /\ a \in 1..Len(ai)
    /\ ai[a].st = "open"
    /\ \A b \in AiOf(ai[a].leg) : Len(ai[b].sent) < MaxSent
    /\ ai' = IF e = Null THEN ai ELSE SendIfOpen(ai, ai[a].leg, Pong[e])
    /\ callStatus' = <<>>
    /\ UNCHANGED <<pollVars, observerVars, hangupVars, clientVars, activeWebSocketConnections, wsState, streamSid, callSid, streamStarted, elevenLabsWs,
                   audioBuffer, agentConfig, timerPending, pendingUrl, twilioOut,
                   ringingPhaseWebSocket, activeElevenLabsCalls, globalAgentConfig,
                   preStart, nAudio, attempts, failed, stale,
                   elevenLabsConnected, connTimer>>

\* ws.socket.on("message"): event "media"
Media(s) ==
    /\ wsState[s] = "open"
    /\ streamStarted[s]
    /\ \A b \in AiOf(s) : Len(ai[b].sent) < MaxSent
    /\ ai' = SendIfOpen(ai, s, "user_audio_chunk")
    /\ callStatus' = <<>>
    /\ UNCHANGED <<pollVars, observerVars, hangupVars, clientVars, activeWebSocketConnections, wsState, streamSid, callSid, streamStarted, elevenLabsWs,
                   audioBuffer, agentConfig, timerPending, pendingUrl, twilioOut,
                   ringingPhaseWebSocket, activeElevenLabsCalls, globalAgentConfig,
                   preStart, nAudio, attempts, failed, stale,
                   elevenLabsConnected, connTimer>>

\* if (elevenLabsWs?.readyState === WebSocket.OPEN) elevenLabsWs.close()
CloseAiIfOpen(s) ==
    IF elevenLabsWs[s] # 0 /\ ai[elevenLabsWs[s]].st = "open"
    THEN [ai EXCEPT ![elevenLabsWs[s]].st = "closed"]
    ELSE ai

\* ws.socket.on("message"): event "stop"
Stop(s) ==
    /\ wsState[s] = "open"
    /\ streamStarted[s]
    /\ ai' = CloseAiIfOpen(s)
    /\ callStatus' = <<"Stream ended">>
    /\ UNCHANGED <<pollVars, observerVars, hangupVars, clientVars, activeWebSocketConnections, wsState, streamSid, callSid, streamStarted, elevenLabsWs,
                   audioBuffer, agentConfig, timerPending, pendingUrl, twilioOut,
                   ringingPhaseWebSocket, activeElevenLabsCalls, globalAgentConfig,
                   preStart, nAudio, attempts, failed, stale,
                   elevenLabsConnected, connTimer>>

\* ws.socket.on("close") and ws.on("close"): the telephony socket closed
TelephonyClose(s) ==
    /\ wsState[s] \in {"open", "closing"}
    /\ wsState' = [wsState EXCEPT ![s] = "closed"]
    /\ ai' = CloseAiIfOpen(s)
    /\ activeElevenLabsCalls' =
          IF callSid[s] # Null THEN activeElevenLabsCalls \ {callSid[s]}
          ELSE activeElevenLabsCalls
    /\ activeWebSocketConnections' =
          IF callSid[s] # Null
          THEN [activeWebSocketConnections EXCEPT ![callSid[s]] = NoConn]
          ELSE activeWebSocketConnections
    /\ callStatus' = <<>>
    /\ UNCHANGED <<pollVars, observerVars, hangupVars, clientVars, streamSid, callSid, streamStarted, elevenLabsWs, audioBuffer,
                   agentConfig, timerPending, pendingUrl, twilioOut,
                   ringingPhaseWebSocket, globalAgentConfig, preStart, nAudio,
                   attempts, failed, stale,
                   elevenLabsConnected, connTimer>>

\* One call leg in full: every event of the bridge on a single telephony socket
Leg == {1}

BridgeNext ==
    \/ \E s \in Leg : Connect(s)
    \/ \E s \in Leg : DelayedTimer(s)
    \/ \E s \in Leg, cfg \in {"custom", Null} : ConfigureAgent(s, cfg)
    \/ \E s \in Leg, cid \in Calls : Start(s, cid)
    \/ \E s \in Leg : SignedUrlOk(s)
    \/ \E s \in Leg : SignedUrlFail(s)
    \/ \E a \in AiIds : AiOpen(a)
    \/ \E a \in AiIds : AiError(a)
    \/ \E a \in AiIds : AiAudio(a, nAudio + 1)
    \/ \E a \in AiIds : AiAudio(a, NoPayload)
    \/ \E a \in AiIds : InitRetry(a)
    \/ \E a \in AiIds, e \in PingIds \cup {Null} : AiPing(a, e)
    \/ \E s \in Leg : Media(s)
    \/ \E s \in Leg : Stop(s)
    \/ \E s \in Leg : TelephonyClose(s)


\* The ringing-phase socket and the answered socket of a call, without audio
PairNext ==
    \/ \E s \in Sockets : Connect(s)
    \/ \E s \in Sockets : DelayedTimer(s)
    \/ \E s \in Sockets, cid \in Calls : Start(s, cid)
    \/ \E s \in Sockets : SignedUrlOk(s)
    \/ \E s \in Sockets : SignedUrlFail(s)
    \/ \E a \in AiIds : AiOpen(a)
    \/ \E a \in AiIds : AiError(a)
    \/ \E s \in Sockets : Stop(s)
    \/ \E s \in Sockets : TelephonyClose(s)

\* Two calls in progress at once, each on a socket of its own
CallsNext ==
    \/ \E s \in Sockets : Connect(s)
    \/ \E s \in Sockets : DelayedTimer(s)
    \/ \E s \in Sockets : Start(s, CallOf[s])
    \/ \E s \in Sockets : SignedUrlOk(s)
    \/ \E a \in AiIds : AiOpen(a)
    \/ \E s \in Sockets : TelephonyClose(s)

(***************************************************************************)
(* The same bridge as routes/websocket.js implements it                    *)
(***************************************************************************)
\* The route handler: a telephony socket connects
WsConnect(s) ==
    /\ wsState[s] = "idle"
    /\ wsState' = [wsState EXCEPT ![s] = "open"]
    /\ agentConfig' = [agentConfig EXCEPT ![s] = globalAgentConfig]
    /\ timerPending' = [timerPending EXCEPT ![s] = TRUE]
    /\ callStatus' = <<>>
    /\ UNCHANGED <<pollVars, observerVars, hangupVars, clientVars, activeWebSocketConnections, streamSid, callSid, streamStarted, elevenLabsWs, audioBuffer,
                   pendingUrl, twilioOut, ai, ringingPhaseWebSocket,
                   activeElevenLabsCalls, globalAgentConfig, elevenLabsConnected,
                   connTimer, preStart, nAudio, attempts, failed, stale>>

\* setupElevenLabs up to its await: the flag is tested and set
WsSetupPasses(s) == ~elevenLabsConnected[s]

\* The setTimeout(..., 1000) callback
WsDelayedTimer(s) ==
    /\ timerPending[s]
    /\ timerPending' = [timerPending EXCEPT ![s] = FALSE]
    /\ LET setup == ~elevenLabsConnected[s] /\ WsSetupPasses(s)
       IN /\ elevenLabsConnected' =
                IF setup THEN [elevenLabsConnected EXCEPT ![s] = TRUE]
                ELSE elevenLabsConnected
          /\ pendingUrl' = IF setup THEN [pendingUrl EXCEPT ![s] = @ + 1]
                           ELSE pendingUrl
          /\ attempts' = IF setup THEN [attempts EXCEPT ![s] = @ + 1] ELSE attempts
    /\ callStatus' = <<>>
    /\ UNCHANGED <<pollVars, observerVars, hangupVars, clientVars, activeWebSocketConnections, wsState, streamSid, callSid, streamStarted, elevenLabsWs,
                   audioBuffer, agentConfig, twilioOut, ai, ringingPhaseWebSocket,
                   activeElevenLabsCalls, globalAgentConfig, connTimer, preStart,
                   nAudio, failed, stale>>

\* ws.socket.on('message'): {type: 'configure_agent'}
WsConfigureAgent(s, cfg) ==
    /\ wsState[s] = "open"
    /\ attempts[s] < MaxSetups
    /\ LET new == IF cfg = Null THEN globalAgentConfig ELSE cfg
           setup == elevenLabsWs[s] = 0 /\ WsSetupPasses(s)
       IN /\ globalAgentConfig' = new
          /\ agentConfig' = [agentConfig EXCEPT ![s] = new]
          /\ elevenLabsConnected' =
                IF setup THEN [elevenLabsConnected EXCEPT ![s] = TRUE]
                ELSE elevenLabsConnected
          /\ pendingUrl' = IF setup THEN [pendingUrl EXCEPT ![s] = @ + 1]
                           ELSE pendingUrl
          /\ attempts' = IF setup THEN [attempts EXCEPT ![s] = @ + 1] ELSE attempts
    /\ callStatus' = <<>>
    /\ UNCHANGED <<pollVars, observerVars, hangupVars, clientVars, activeWebSocketConnections, wsState, streamSid, callSid, streamStarted, elevenLabsWs,
                   audioBuffer, timerPending, twilioOut, ai, ringingPhaseWebSocket,
                   activeElevenLabsCalls, connTimer, preStart, nAudio, failed,
                   stale>>

\* ws.socket.on('message'): event 'start'
WsStart(s, cid) ==
    /\ wsState[s] = "open"
    /\ ~streamStarted[s]
    /\ streamSid' = [streamSid EXCEPT ![s] = StreamOf(s)]
    /\ callSid' = [callSid EXCEPT ![s] = cid]
    /\ streamStarted' = [streamStarted EXCEPT ![s] = TRUE]
    /\ twilioOut' = [twilioOut EXCEPT ![s] = @ \o Flush(audioBuffer[s], StreamOf(s))]
    /\ audioBuffer' = [audioBuffer EXCEPT ![s] = <<>>]
    /\ callStatus' = <<"Call connected">>
    /\ UNCHANGED <<pollVars, observerVars, hangupVars, clientVars, activeWebSocketConnections, wsState, elevenLabsWs, agentConfig, timerPending, pendingUrl, ai,
                   ringingPhaseWebSocket, activeElevenLabsCalls, globalAgentConfig,
                   elevenLabsConnected, connTimer, preStart, nAudio, attempts,
                   failed, stale>>

\* resolve(...) or reject(...) on the promise of createElevenLabsConnection:
\* a promise settles once, later calls have no effect
Settle(promise, outcome) == IF promise = "pending" THEN outcome ELSE promise

\* The timeout callback as it would be without the readyState test
TimedOutAlways(sock) == TRUE

\* elevenLabsWs.readyState !== WebSocket.OPEN in the timeout callback
TimedOut(sock) == sock.st # "open"

\* createElevenLabsConnection resumes: getSignedUrl() resolved, the socket is
\* constructed, the promise returned and the 10 s timeout armed
WsSignedUrlOk(s) ==
    /\ pendingUrl[s] > 0
    /\ pendingUrl' = [pendingUrl EXCEPT ![s] = @ - 1]
    /\ ai' = Append(ai, [NewAi(s) EXCEPT !.connect = "pending"])
    /\ connTimer' = connTimer \cup {Len(ai) + 1}
    /\ callStatus' = <<>>
    /\ UNCHANGED <<pollVars, observerVars, hangupVars, clientVars, activeWebSocketConnections, wsState, streamSid, callSid, streamStarted, elevenLabsWs,
                   audioBuffer, agentConfig, timerPending, twilioOut,
                   ringingPhaseWebSocket, activeElevenLabsCalls, globalAgentConfig,
                   elevenLabsConnected, preStart, nAudio, attempts, failed, stale>>

\* createElevenLabsConnection rejects before the socket exists; the catch of
\* setupElevenLabs resets the flag
WsSignedUrlFail(s) ==
    /\ pendingUrl[s] > 0
    /\ pendingUrl' = [pendingUrl EXCEPT ![s] = @ - 1]
    /\ elevenLabsConnected' = [elevenLabsConnected EXCEPT ![s] = FALSE]
    /\ failed' = [failed EXCEPT ![s] = TRUE]
    /\ callStatus' = <<"Failed to connect to AI service">>
    /\ UNCHANGED <<pollVars, observerVars, hangupVars, clientVars, activeWebSocketConnections, wsState, streamSid, callSid, streamStarted, elevenLabsWs,
                   audioBuffer, agentConfig, timerPending, twilioOut, ai,
                   ringingPhaseWebSocket, activeElevenLabsCalls, globalAgentConfig,
                   connTimer, preStart, nAudio, attempts, stale>>

\* elevenLabsWs.on('open'): the promise resolves and setupElevenLabs stores
\* the socket and attaches its handlers
WsAiOpen(a) ==
    /\ a \in 1..Len(ai)
    /\ ai[a].st = "connecting"
    \* the open handler of createElevenLabsConnection sends on its own socket
    /\ ai' = [ai EXCEPT ![a].st = "open", ![a].sent = Append(@, "init"),
                        ![a].connect = Settle(@, "resolved")]
    /\ elevenLabsWs' = [elevenLabsWs EXCEPT ![ai[a].leg] = a]
    /\ callStatus' = <<>>
    /\ UNCHANGED <<pollVars, observerVars, hangupVars, clientVars, activeWebSocketConnections, wsState, streamSid, callSid, streamStarted, audioBuffer,
                   agentConfig, timerPending, pendingUrl, twilioOut,
                   ringingPhaseWebSocket, activeElevenLabsCalls, globalAgentConfig,
                   elevenLabsConnected, connTimer, preStart, nAudio, attempts,
                   failed, stale>>

\* elevenLabsWs.on('error'): rejects the promise if it is still pending
WsAiError(a) ==
    /\ a \in 1..Len(ai)
    /\ ai[a].st \in {"connecting", "open"}
    /\ ai' = [ai EXCEPT ![a].st = "closed", ![a].connect = Settle(@, "rejected")]
    /\ LET s == ai[a].leg
           rejected == ai[a].connect = "pending"
       IN /\ elevenLabsConnected' =
                IF rejected THEN [elevenLabsConnected EXCEPT ![s] = FALSE]
                ELSE elevenLabsConnected
          /\ failed' = IF rejected THEN [failed EXCEPT ![s] = TRUE] ELSE failed
    /\ callStatus' = IF ai[a].connect = "pending"
                    THEN <<"Failed to connect to AI service">>
                    ELSE <<"Connection error occurred", "AI service disconnected">>
    /\ UNCHANGED <<pollVars, observerVars, hangupVars, clientVars, activeWebSocketConnections, wsState, streamSid, callSid, streamStarted, elevenLabsWs,
                   audioBuffer, agentConfig, timerPending, pendingUrl, twilioOut,
                   ringingPhaseWebSocket, activeElevenLabsCalls, globalAgentConfig,
                   connTimer, preStart, nAudio, attempts, stale>>

\* The setTimeout(..., 10000) of createElevenLabsConnection
WsConnTimeout(a) ==
    /\ a \in connTimer
    /\ connTimer' = connTimer \ {a}
    /\ LET s == ai[a].leg
           rejected == TimedOut(ai[a]) /\ ai[a].connect = "pending"
       IN /\ ai' = IF TimedOut(ai[a])
                   THEN [ai EXCEPT ![a].st = "closed",
                                   ![a].connect = Settle(@, "rejected")]
                   ELSE ai
          /\ elevenLabsConnected' =
                IF rejected THEN [elevenLabsConnected EXCEPT ![s] = FALSE]
                ELSE elevenLabsConnected
          /\ failed' = IF rejected THEN [failed EXCEPT ![s] = TRUE] ELSE failed
          /\ callStatus' = IF rejected
                           THEN <<"Failed to connect to AI service">> ELSE <<>>
    /\ UNCHANGED <<pollVars, observerVars, hangupVars, clientVars, activeWebSocketConnections, wsState, streamSid, callSid, streamStarted, elevenLabsWs,
                   audioBuffer, agentConfig, timerPending, pendingUrl, twilioOut,
                   ringingPhaseWebSocket, activeElevenLabsCalls, globalAgentConfig,
                   preStart, nAudio, attempts, stale>>

\* processElevenLabsMessage case 'audio' -> onAudio
WsAiAudio(a, p) ==
    /\ a \in 1..Len(ai)
    /\ ai[a].st = "open"
    /\ nAudio < MaxAudio
    /\ LET s == ai[a].leg
       IN IF p = NoPayload
          THEN UNCHANGED <<twilioOut, audioBuffer, preStart, nAudio>>
          ELSE /\ nAudio' = nAudio + 1
               /\ preStart' = IF streamStarted[s] THEN preStart
                              ELSE [preStart EXCEPT ![s] = Append(@, p)]
               /\ IF streamStarted[s] /\ streamSid[s] # Null
                  THEN /\ twilioOut' =
                            IF wsState[s] = "open"
                            THEN [twilioOut EXCEPT
                                    ![s] = Append(@, MediaFrame(streamSid[s], p))]
                            ELSE twilioOut
                       /\ UNCHANGED audioBuffer
                  ELSE /\ audioBuffer' = [audioBuffer EXCEPT ![s] = Append(@, p)]
                       /\ UNCHANGED twilioOut
    /\ callStatus' = <<>>
    /\ UNCHANGED <<pollVars, observerVars, hangupVars, clientVars, activeWebSocketConnections, wsState, streamSid, callSid, streamStarted, elevenLabsWs,
                   agentConfig, timerPending, pendingUrl, ai, ringingPhaseWebSocket,
                   activeElevenLabsCalls, globalAgentConfig, elevenLabsConnected,
                   connTimer, attempts, failed, stale>>

\* processElevenLabsMessage case 'ping' -> onPing -> sendPong(elevenLabsWs, id)
WsAiPing(a, e) ==
    /\ a \in 1..Len(ai)
    /\ ai[a].st = "open"
    /\ Len(ai[a].sent) < MaxSent
    /\ ai' = IF e = Null THEN ai ELSE SendIfOpen(ai, ai[a].leg, Pong[e])
    /\ callStatus' = <<>>
    /\ UNCHANGED <<pollVars, observerVars, hangupVars, clientVars, activeWebSocketConnections, wsState, streamSid, callSid, streamStarted, elevenLabsWs,
                   audioBuffer, agentConfig, timerPending, pendingUrl, twilioOut,
                   ringingPhaseWebSocket, activeElevenLabsCalls, globalAgentConfig,
                   preStart, nAudio, attempts, failed, stale,
                   elevenLabsConnected, connTimer>>

\* processElevenLabsMessage case 'interruption' -> onInterruption
WsAiInterruption(a) ==
    /\ a \in 1..Len(ai)
    /\ ai[a].st = "open"
    /\ Cardinality(Clears(twilioOut[ai[a].leg])) < MaxClears
    /\ twilioOut' = SendClear(ai[a].leg)
    /\ callStatus' = <<>>
    /\ UNCHANGED <<pollVars, observerVars, hangupVars, clientVars, activeWebSocketConnections, wsState, streamSid, callSid, streamStarted, elevenLabsWs,
                   audioBuffer, agentConfig, timerPending, pendingUrl, ai,
                   ringingPhaseWebSocket, activeElevenLabsCalls, globalAgentConfig,
                   preStart, nAudio, attempts, failed, stale,
                   elevenLabsConnected, connTimer>>

\* ws.socket.on('message'): event 'media' -> sendUserAudio(elevenLabsWs, payload)
WsMedia(s) ==
    /\ wsState[s] = "open"
    /\ streamStarted[s]
    /\ \A b \in AiOf(s) : Len(ai[b].sent) < MaxSent
    /\ ai' = SendIfOpen(ai, s, "user_audio_chunk")
    /\ callStatus' = <<>>
    /\ UNCHANGED <<pollVars, observerVars, hangupVars, clientVars, activeWebSocketConnections, wsState, streamSid, callSid, streamStarted, elevenLabsWs,
                   audioBuffer, agentConfig, timerPending, pendingUrl, twilioOut,
                   ringingPhaseWebSocket, activeElevenLabsCalls, globalAgentConfig,
                   preStart, nAudio, attempts, failed, stale,
                   elevenLabsConnected, connTimer>>

\* ws.socket.on('message'): event 'stop'
WsStop(s) ==
    /\ wsState[s] = "open"
    /\ streamStarted[s]
    /\ ai' = CloseAiIfOpen(s)
    /\ callStatus' = <<"Call ended">>
    /\ UNCHANGED <<pollVars, observerVars, hangupVars, clientVars, activeWebSocketConnections, wsState, streamSid, callSid, streamStarted, elevenLabsWs,
                   audioBuffer, agentConfig, timerPending, pendingUrl, twilioOut,
                   ringingPhaseWebSocket, activeElevenLabsCalls, globalAgentConfig,
                   elevenLabsConnected, connTimer, preStart, nAudio, attempts,
                   failed, stale>>

\* ws.socket.on('close')
WsTelephonyClose(s) ==
    /\ wsState[s] = "open"
    /\ wsState' = [wsState EXCEPT ![s] = "closed"]
    /\ ai' = CloseAiIfOpen(s)
    /\ callStatus' = <<>>
    /\ UNCHANGED <<pollVars, observerVars, hangupVars, clientVars, activeWebSocketConnections, streamSid, callSid, streamStarted, elevenLabsWs, audioBuffer,
                   agentConfig, timerPending, pendingUrl, twilioOut,
                   ringingPhaseWebSocket, activeElevenLabsCalls, globalAgentConfig,
                   elevenLabsConnected, connTimer, preStart, nAudio, attempts,
                   failed, stale>>

\* The keepalive id of the routes scenario
RoutesPingIds == {"e1"}

RoutesNext ==
    \/ \E s \in Leg : WsConnect(s)
    \/ \E s \in Leg : WsDelayedTimer(s)
    \/ \E s \in Leg, cfg \in {"custom", Null} : WsConfigureAgent(s, cfg)
    \/ \E s \in Leg, cid \in Calls : WsStart(s, cid)
    \/ \E s \in Leg : WsSignedUrlOk(s)
    \/ \E s \in Leg : WsSignedUrlFail(s)
    \/ \E a \in AiIds : WsAiOpen(a)
    \/ \E a \in AiIds : WsAiError(a)
    \/ \E a \in AiIds : WsConnTimeout(a)
    \/ \E a \in AiIds : WsAiAudio(a, nAudio + 1)
    \/ \E a \in AiIds : WsAiAudio(a, NoPayload)
    \/ \E a \in AiIds, e \in RoutesPingIds \cup {Null} : WsAiPing(a, e)
    \/ \E s \in Leg : WsMedia(s)
    \/ \E s \in Leg : WsStop(s)
    \/ \E s \in Leg : WsTelephonyClose(s)

\* The audio path of routes/websocket.js on one leg: AI audio and
\* interruptions before and after `start`
AudioNext ==
    \/ \E s \in Leg : WsConnect(s)
    \/ \E s \in Leg : WsDelayedTimer(s)
    \/ \E s \in Leg, cid \in Calls : WsStart(s, cid)
    \/ \E s \in Leg : WsSignedUrlOk(s)
    \/ \E a \in AiIds : WsAiOpen(a)
    \/ \E a \in AiIds : WsAiError(a)
    \/ \E a \in AiIds : WsAiAudio(a, nAudio + 1)
    \/ \E a \in AiIds : WsAiAudio(a, NoPayload)
    \/ \E a \in AiIds : WsAiInterruption(a)
    \/ \E s \in Leg : WsStop(s)
    \/ \E s \in Leg : WsTelephonyClose(s)

(***************************************************************************)
(* Conversation registry and reconciliation poller (server/index.js)       *)
(***************************************************************************)
\* Conversation ids the callers of the registry use
Ids == {"c1", "c2"}
\* A conversation of the provider account that is never registered
Other == "zz"
\* The order in which the provider lists conversations
IdOrder == <<"c1", "c2", "zz">>
\* Statuses the provider reports
ProvStatuses == {"in-progress", "done"}
\* Concurrent invocations of pollActiveConversations (a tick can start while
\* the previous one still awaits a fetch)
PollSlots == {1, 2}
\* Length of the provider's event list
MaxEvents == 2
\* Largest message count reached by touch
MaxMsgs == 2
\* Largest number of pending deletion timers of one id
MaxTimers == 2
\* The clock advances in steps of 2 or 3 minutes up to MaxClock
ClockSteps == {2, 3}
MaxClock == 6
\* setInterval(... cleanupInactiveConversations(5) ...)
SweepTimeoutMinutes == 5

\* Events of a conversation detail: type and message text
EventKinds ==
    { [type |-> "user_transcript", message |-> "hello"],
      [type |-> "agent_message", message |-> "welcome"],
      [type |-> "agent_response_correction", message |-> "fixed"],
      [type |-> "ping", message |-> "tick"],
      [type |-> "user_transcript", message |-> ""] }

EventLists == [1..MaxEvents -> EventKinds]

Rec(status, endReason, messageCount, lastActivity) ==
    [status |-> status, endReason |-> endReason,
     messageCount |-> messageCount, lastActivity |-> lastActivity]

\* activeInboundConversations.get(id) === undefined
NoRec == Rec("none", Null, 0, 0)

Tracked(reg, id) == id \in Ids /\ reg[id].status # "none"

IdleTask == [pc |-> "idle", ids |-> {}, cur |-> Null, rest |-> <<>>]

\* The argument list of one broadcastTranscript(type, message, id) call
Bc(type, text, id) ==
    [type |-> type, message |-> [corrected |-> FALSE, text |-> text], id |-> id]

\* broadcastTranscript('agent_response', `[Corrected] ${message}`, id)
BcCorrected(text, id) ==
    [type |-> "agent_response", message |-> [corrected |-> TRUE, text |-> text],
     id |-> id]

NoDetail == [id |-> Null, n |-> 0, before |-> -1]

\* No tick ended or failed in the step
\* The last step looked up no id in vain
Found == [op |-> Null, id |-> Null]

NoTick == [done |-> FALSE, ids |-> {}, failed |-> FALSE, cleared |-> {}]

\* The ids of the 'inbound_call_ended' broadcasts among em
EndedIds(em) ==
    {em[i].id : i \in {j \in 1..Len(em) : em[j].type = "inbound_call_ended"}}

\* The history of ended broadcasts after a step that registered nothing
Announce == endedAnnounced' = endedAnnounced \cup EndedIds(emitted')

InitPoll(lists) ==
    /\ activeInboundConversations = [id \in Ids |-> NoRec]
    /\ conversationCache = [id \in Ids |-> -1]
    /\ lastConversationCount = 0
    /\ deleteTimers = [id \in Ids |-> 0]
    /\ now = 0
    /\ polls = [p \in PollSlots |-> IdleTask]
    /\ provEvents \in lists
    /\ emitted = <<>>
    /\ fetched = Null
    /\ tickIds = NoTick
    /\ detail = NoDetail
    /\ started = NoRec
    /\ notFound = Found
    /\ transcriptLog = [id \in Ids |-> <<>>]
    /\ heard = [id \in Ids |-> -1]
    /\ endedAnnounced = {}

\* What a step that completes no tick, requests no detail and leaves the
\* provider alone does to the output variables
Quiet(em) ==
    /\ emitted' = em
    /\ fetched' = Null
    /\ tickIds' = NoTick
    /\ detail' = NoDetail
    /\ started' = NoRec
    /\ UNCHANGED provEvents

(* ---- conversationUtils ------------------------------------------------ *)

\* startInboundConversation as it would be without the has(id) test
StartInboundConversationAnew(id) ==
    /\ activeInboundConversations' =
          [activeInboundConversations EXCEPT ![id] = Rec("active", Null, 0, now)]
    /\ started' = activeInboundConversations'[id]
    /\ notFound' = Found
    /\ emitted' = <<>>
    /\ fetched' = Null
    /\ tickIds' = NoTick
    /\ detail' = NoDetail
    /\ heard' = [heard EXCEPT ![id] = -1]
    /\ endedAnnounced' = endedAnnounced \ {id}
    /\ UNCHANGED <<bridgeVars, observerVars, hangupVars, clientVars, conversationCache, lastConversationCount,
                   deleteTimers, now, polls, transcriptLog, provEvents>>

\* conversationUtils.startInboundConversation
StartInboundConversation(id) ==
    /\ activeInboundConversations' =
          IF Tracked(activeInboundConversations, id)
          THEN activeInboundConversations
          ELSE [activeInboundConversations EXCEPT ![id] = Rec("active", Null, 0, now)]
    /\ started' = activeInboundConversations'[id]
    /\ notFound' = Found
    /\ emitted' = <<>>
    /\ fetched' = Null
    /\ tickIds' = NoTick
    /\ detail' = NoDetail
    /\ heard' = IF Tracked(activeInboundConversations, id)
                THEN heard
                ELSE [heard EXCEPT ![id] = -1]
    /\ endedAnnounced' = IF Tracked(activeInboundConversations, id)
                         THEN endedAnnounced
                         ELSE endedAnnounced \ {id}
    /\ UNCHANGED provEvents
    /\ UNCHANGED <<bridgeVars, observerVars, hangupVars, clientVars, conversationCache, lastConversationCount,
                   deleteTimers, now, polls, transcriptLog>>

\* What a call of op for id reports of its lookup in registry reg:
\* activeInboundConversations.get(id) gave nothing, or the record was found
Lookup(reg, op, id) ==
    IF Tracked(reg, id) THEN Found ELSE [op |-> op, id |-> id]

\* The body of conversationUtils.endInboundConversation on registry reg
EndRecord(reg, id, reason) ==
    [reg EXCEPT ![id].status = "ended", ![id].endReason = reason]

\* conversationUtils.endInboundConversation
EndInboundConversation(id, reason) ==
    /\ deleteTimers[id] < MaxTimers
    /\ IF Tracked(activeInboundConversations, id)
       THEN /\ activeInboundConversations' =
                  EndRecord(activeInboundConversations, id, reason)
            /\ deleteTimers' = [deleteTimers EXCEPT ![id] = @ + 1]
       ELSE UNCHANGED <<activeInboundConversations, deleteTimers>>
    /\ Quiet(<<>>)
    /\ notFound' = Lookup(activeInboundConversations, "end", id)
    /\ Announce
    /\ UNCHANGED <<bridgeVars, observerVars, hangupVars, clientVars, heard, conversationCache, lastConversationCount, now,
                   polls, transcriptLog>>

\* updateConversationActivity as it would be without the if (conversation)
\* test, writing the two fields for any id
TouchAny(reg, id, t) ==
    [reg EXCEPT ![id].lastActivity = t, ![id].messageCount = @ + 1]

\* updateConversationActivity as it would be if a touch also marked the
\* conversation active again
TouchReviving(reg, id, t) ==
    IF Tracked(reg, id)
    THEN [reg EXCEPT ![id].lastActivity = t, ![id].messageCount = @ + 1,
                     ![id].status = "active"]
    ELSE reg

\* The body of conversationUtils.updateConversationActivity on registry reg
Touch(reg, id, t) ==
    IF Tracked(reg, id)
    THEN [reg EXCEPT ![id].lastActivity = t, ![id].messageCount = @ + 1]
    ELSE reg

\* conversationUtils.updateConversationActivity
UpdateConversationActivity(id) ==
    /\ activeInboundConversations[id].messageCount < MaxMsgs
    /\ activeInboundConversations' = Touch(activeInboundConversations, id, now)
    /\ Quiet(<<>>)
    /\ notFound' = Lookup(activeInboundConversations, "touch", id)
    /\ Announce
    /\ UNCHANGED <<bridgeVars, observerVars, hangupVars, clientVars, heard, conversationCache, lastConversationCount,
                   deleteTimers, now, polls, transcriptLog>>

\* The collection as it would be without the status === 'active' test
InactiveOfAnyStatus(reg, timeoutMinutes, t) ==
    {id \in Ids : Tracked(reg, id) /\ t - reg[id].lastActivity > timeoutMinutes}

\* The ids conversationUtils.cleanupInactiveConversations collects
Inactive(reg, timeoutMinutes, t) ==
    {id \in Ids : /\ Tracked(reg, id)
                  /\ t - reg[id].lastActivity > timeoutMinutes
                  /\ reg[id].status = "active"}

\* Ids in the order the loops visit them
OrderedIds(S) == SelectSeq(IdOrder, LAMBDA x : x \in S)

\* conversationUtils.cleanupInactiveConversations(timeoutMinutes)
SweepInactiveConversations(timeoutMinutes) ==
    LET gone == Inactive(activeInboundConversations, timeoutMinutes, now)
        order == OrderedIds(gone)
    IN /\ \A id \in gone : deleteTimers[id] < MaxTimers
       /\ activeInboundConversations' =
             [id \in Ids |-> IF id \in gone
                             THEN EndRecord(activeInboundConversations, id,
                                            "timeout")[id]
                             ELSE activeInboundConversations[id]]
       /\ deleteTimers' = [id \in Ids |-> IF id \in gone THEN deleteTimers[id] + 1
                                          ELSE deleteTimers[id]]
       /\ Quiet([i \in 1..Len(order) |->
                    Bc("inbound_call_ended", "Call ended due to inactivity",
                       order[i])])
       /\ notFound' = Found
       /\ Announce
       /\ UNCHANGED <<bridgeVars, observerVars, hangupVars, clientVars, heard, conversationCache, lastConversationCount, now,
                      polls, transcriptLog>>

\* POST /inbound-conversations/:conversationId/end
ManualEnd(id) ==
    /\ deleteTimers[id] < MaxTimers
    /\ IF Tracked(activeInboundConversations, id)
       THEN /\ activeInboundConversations' =
                  [activeInboundConversations EXCEPT ![id].status = "ended"]
            /\ deleteTimers' = [deleteTimers EXCEPT ![id] = @ + 1]
            /\ Quiet(<<Bc("inbound_call_ended", "Inbound call ended manually", id)>>)
            /\ notFound' = Found
       ELSE /\ UNCHANGED <<activeInboundConversations, deleteTimers>>
            /\ Quiet(<<>>)
            /\ notFound' = Found
    /\ Announce
    /\ UNCHANGED <<bridgeVars, observerVars, hangupVars, clientVars, heard, conversationCache, lastConversationCount, now,
                   polls, transcriptLog>>

\* The setTimeout callback scheduled by every path that ends a conversation
DeleteTimer(id) ==
    /\ deleteTimers[id] > 0
    /\ deleteTimers' = [deleteTimers EXCEPT ![id] = @ - 1]
    /\ activeInboundConversations' = [activeInboundConversations EXCEPT ![id] = NoRec]
    /\ conversationCache' = [conversationCache EXCEPT ![id] = -1]
    /\ transcriptLog' = [transcriptLog EXCEPT ![id] = <<>>]
    /\ Quiet(<<>>)
    /\ notFound' = Found
    /\ Announce
    /\ UNCHANGED <<bridgeVars, observerVars, hangupVars, clientVars, heard, lastConversationCount, now, polls>>

\* Time passes
Advance(d) ==
    /\ now + d <= MaxClock
    /\ now' = now + d
    /\ Quiet(<<>>)
    /\ notFound' = Found
    /\ Announce
    /\ UNCHANGED <<bridgeVars, observerVars, hangupVars, clientVars, heard, activeInboundConversations, conversationCache,
                   lastConversationCount, deleteTimers, polls, transcriptLog>>

(* ---- the poller -------------------------------------------------------- *)

\* A poller state threaded through the synchronous part of a tick:
\* the registry, the broadcasts made so far, the transcript log of the
\* conversation at hand and its cursor
St(reg, em, log, cursor) == [reg |-> reg, em |-> em, log |-> log, cursor |-> cursor]

\* The broadcast of processTranscriptEvent's switch, as a sequence of 0 or 1
EventBroadcast(event, id) ==
    CASE event.type \in {"user_transcript", "user_message", "user_response"} ->
            <<Bc("user_transcript", event.message, id)>>
      [] event.type \in {"agent_response", "agent_message", "assistant_response"} ->
            <<Bc("agent_response", event.message, id)>>
      [] event.type = "agent_response_correction" ->
            <<BcCorrected(event.message, id)>>
      [] OTHER -> <<>>

\* processTranscriptEvent
ProcessTranscriptEvent(st, id, event, t) ==
    IF event.message = "" THEN st
    ELSE St(Touch(st.reg, id, t),
            st.em \o EventBroadcast(event, id),
            st.log \o EventBroadcast(event, id),
            st.cursor)

RECURSIVE ProcessEvents(_, _, _, _)
\* for (const event of newEvents) await processTranscriptEvent(...)
ProcessEvents(st, id, evs, t) ==
    IF evs = <<>> THEN st
    ELSE ProcessEvents(ProcessTranscriptEvent(st, id, Head(evs), t), id, Tail(evs), t)

\* events.slice(cachedState.lastEventIndex): the last event is taken again
NewEventsFromCursor(events, lastEventIndex) ==
    SubSeq(events, IF lastEventIndex < 0 THEN 1 ELSE lastEventIndex + 1,
           Len(events))

\* events.slice(cachedState.lastEventIndex + 1)
NewEvents(events, lastEventIndex) == SubSeq(events, lastEventIndex + 2, Len(events))

\* processTranscriptUpdates as it would be with the cache update outside the
\* if (newEvents.length > 0)
ProcessTranscriptUpdatesAlways(st, id, events, t) ==
    [ProcessEvents(st, id, NewEvents(events, st.cursor), t)
        EXCEPT !.cursor = Len(events) - 1]

\* processTranscriptUpdates
ProcessTranscriptUpdates(st, id, events, t) ==
    LET newEvents == NewEvents(events, st.cursor)
    IN IF Len(newEvents) > 0
       THEN [ProcessEvents(st, id, newEvents, t) EXCEPT !.cursor = Len(events) - 1]
       ELSE st

\* processConversationUpdate up to its await: status assignment and broadcast
UpdateStatus(reg, c) == [reg EXCEPT ![c.id].status = c.status]

RECURSIVE ProcessLoop(_, _, _)
\* The for loop of pollActiveConversations over the snapshot q, run until
\* processConversationUpdate awaits the detail of a "done" conversation
\* (cur is then its id) or the snapshot is exhausted (cur = Null)
ProcessLoop(reg, em, q) ==
    IF q = <<>> THEN [reg |-> reg, em |-> em, cur |-> Null, rest |-> <<>>]
    ELSE LET c == Head(q)
         IN IF Tracked(reg, c.id)
            THEN LET reg2 == UpdateStatus(reg, c)
                     em2 == Append(em, Bc("conversation_status_change", c.status, c.id))
                 IN IF c.status = "done"
                    THEN [reg |-> reg2, em |-> em2, cur |-> c.id, rest |-> Tail(q)]
                    ELSE ProcessLoop(reg2, em2, Tail(q))
            ELSE ProcessLoop(reg, em, Tail(q))

\* The ids the module-level cleanupInactiveConversations(activeConversations) ends
Absent(reg, ids) ==
    {id \in Ids : Tracked(reg, id) /\ id \notin ids /\ reg[id].status = "active"}

\* The rest of a tick from the loop position q on: the loop and, if it runs to
\* its end, cleanupInactiveConversations
RunTick(p, reg, em, q, ids) ==
    LET r == ProcessLoop(reg, em, q)
        gone == Absent(r.reg, ids)
        order == OrderedIds(gone)
    IN IF r.cur # Null
       THEN /\ activeInboundConversations' = r.reg
            /\ polls' = [polls EXCEPT ![p] = [pc |-> "detail", ids |-> ids,
                                              cur |-> r.cur, rest |-> r.rest]]
            /\ emitted' = r.em
            /\ fetched' = r.cur
            /\ tickIds' = NoTick
            /\ UNCHANGED deleteTimers
       ELSE /\ \A id \in gone : deleteTimers[id] < MaxTimers
            /\ activeInboundConversations' =
                  [id \in Ids |-> IF id \in gone
                                  THEN [r.reg[id] EXCEPT !.status = "ended"]
                                  ELSE r.reg[id]]
            /\ deleteTimers' = [id \in Ids |-> IF id \in gone
                                               THEN deleteTimers[id] + 1
                                               ELSE deleteTimers[id]]
            /\ polls' = [polls EXCEPT ![p] = IdleTask]
            /\ emitted' = r.em \o [i \in 1..Len(order) |->
                                     Bc("inbound_call_ended", "Inbound call ended",
                                        order[i])]
            /\ fetched' = Null
            /\ tickIds' = [NoTick EXCEPT !.done = TRUE, !.ids = ids]

\* The snapshot in which conversation x has status f[x] ("absent": not listed)
Snapshot(f) ==
    LET listed == SelectSeq(IdOrder, LAMBDA x : f[x] # "absent")
    IN [i \in 1..Len(listed) |-> [id |-> listed[i], status |-> f[listed[i]]]]

SnapshotChoices == [Ids \cup {Other} -> ProvStatuses \cup {"absent"}]

\* The setInterval callback: pollActiveConversations starts and awaits the list
PollTick(p) ==
    /\ polls[p].pc = "idle"
    /\ \A x \in PollSlots : x < p => polls[x].pc # "idle"
    /\ polls' = [polls EXCEPT ![p].pc = "list"]
    /\ Quiet(<<>>)
    /\ notFound' = Found
    /\ Announce
    /\ UNCHANGED <<bridgeVars, observerVars, hangupVars, clientVars, heard, activeInboundConversations, conversationCache,
                   lastConversationCount, deleteTimers, now, transcriptLog>>

\* A clear() that would drop only the records that are not active
ClearInactive(reg) ==
    [id \in Ids |-> IF reg[id].status = "active" THEN reg[id] ELSE NoRec]

\* activeInboundConversations.clear()
ClearRegistry(reg) == [id \in Ids |-> NoRec]

\* A failed tick that would give up what it tracks
FailedTickClearing(reg) == activeInboundConversations' = ClearRegistry(reg)

\* The registry after a tick whose list fetch failed: the early return and
\* the catch block only log
FailedTick(reg) == activeInboundConversations' = reg

\* The list fetch throws or answers with a non-OK status
PollListFail(p) ==
    /\ polls[p].pc = "list"
    /\ polls' = [polls EXCEPT ![p] = IdleTask]
    /\ FailedTick(activeInboundConversations)
    /\ emitted' = <<>>
    /\ fetched' = Null
    /\ tickIds' = [NoTick EXCEPT !.failed = TRUE]
    /\ detail' = NoDetail
    /\ started' = NoRec
    /\ notFound' = Found
    /\ Announce
    /\ UNCHANGED <<bridgeVars, observerVars, hangupVars, clientVars, heard, conversationCache, lastConversationCount,
                   deleteTimers, now, provEvents, transcriptLog>>

\* pollActiveConversations resumes with the snapshot of choice f
PollListOk(p, f) ==
    /\ polls[p].pc = "list"
    /\ LET snap == Snapshot(f)
           ids == {snap[i].id : i \in 1..Len(snap)}
           count == Len(snap)
       IN IF count = 0
          THEN /\ activeInboundConversations' =
                     ClearRegistry(activeInboundConversations)
               /\ polls' = [polls EXCEPT ![p] = IdleTask]
               /\ emitted' = <<>>
               /\ fetched' = Null
               /\ tickIds' = [NoTick EXCEPT
                                !.done = TRUE,
                                !.cleared = {id \in Ids :
                                    activeInboundConversations[id].status = "active"}]
               /\ UNCHANGED <<lastConversationCount, deleteTimers>>
          ELSE /\ lastConversationCount' = count
               /\ RunTick(p, activeInboundConversations,
                          IF count # lastConversationCount
                          THEN <<Bc("conversation_count_update", "count", Null)>>
                          ELSE <<>>,
                          snap, ids)
    /\ detail' = NoDetail
    /\ started' = NoRec
    /\ notFound' = Found
    /\ Announce
    /\ UNCHANGED <<bridgeVars, observerVars, hangupVars, clientVars, heard, conversationCache, now, provEvents, transcriptLog>>

\* processConversationUpdate resumes with the first n events of the detail
PollDetailOk(p, n) ==
    /\ polls[p].pc = "detail"
    /\ LET id == polls[p].cur
           st == ProcessTranscriptUpdates(
                    St(activeInboundConversations, <<>>, transcriptLog[id],
                       conversationCache[id]),
                    id, SubSeq(provEvents, 1, n), now)
       IN /\ conversationCache' = [conversationCache EXCEPT ![id] = st.cursor]
          /\ transcriptLog' = [transcriptLog EXCEPT ![id] = st.log]
          /\ detail' = [id |-> id, n |-> n, before |-> conversationCache[id]]
          /\ heard' = [heard EXCEPT ![id] = IF st.cursor > @ THEN st.cursor ELSE @]
          /\ started' = NoRec
          /\ notFound' = Found
          /\ RunTick(p, st.reg, st.em, polls[p].rest, polls[p].ids)
    /\ Announce
    /\ UNCHANGED <<bridgeVars, observerVars, hangupVars, clientVars, lastConversationCount, now, provEvents>>

\* The detail fetch throws or answers with a non-OK status
PollDetailFail(p) ==
    /\ polls[p].pc = "detail"
    /\ RunTick(p, activeInboundConversations, <<>>, polls[p].rest, polls[p].ids)
    /\ detail' = NoDetail
    /\ started' = NoRec
    /\ notFound' = Found
    /\ Announce
    /\ UNCHANGED <<bridgeVars, observerVars, hangupVars, clientVars, heard, conversationCache, lastConversationCount, now,
                   provEvents, transcriptLog>>

\* The conversation the poller scenarios register
One == {"c1"}

\* Snapshots that list no registered conversation but those of S
SnapshotsOver(S) == {f \in SnapshotChoices : \A x \in Ids \ S : f[x] = "absent"}

\* Registry and poller around one conversation: every way to end it, two
\* overlapping ticks, snapshots with and without it
PollNext ==
    \/ \E id \in One : StartInboundConversation(id)
    \/ \E id \in One : EndInboundConversation(id, "completed")
    \/ \E id \in One : ManualEnd(id)
    \/ \E id \in One : DeleteTimer(id)
    \/ \E p \in PollSlots : PollTick(p)
    \/ \E p \in PollSlots : PollListFail(p)
    \/ \E p \in PollSlots, f \in SnapshotsOver(One) : PollListOk(p, f)
    \/ \E p \in PollSlots, n \in 0..MaxEvents : PollDetailOk(p, n)
    \/ \E p \in PollSlots : PollDetailFail(p)

\* Snapshots that list conversation c1 or nothing
SnapshotsOfOne == {f \in SnapshotsOver(One) : f[Other] = "absent"}

\* The transcript path runs one tick at a time: the processing of a detail
\* is a single step, so a second tick in flight adds no order of details
\* that successive ticks do not already give
TranscriptSlots == {1}

\* The transcript path of the poller: one conversation, successive ticks,
\* details of any length
TranscriptNext ==
    \/ \E id \in One : StartInboundConversation(id)
    \/ \E id \in One : EndInboundConversation(id, "completed")
    \/ \E id \in One : DeleteTimer(id)
    \/ \E p \in TranscriptSlots : PollTick(p)
    \/ \E p \in TranscriptSlots, f \in SnapshotsOfOne : PollListOk(p, f)
    \/ \E p \in TranscriptSlots, n \in 0..MaxEvents : PollDetailOk(p, n)
    \/ \E p \in TranscriptSlots : PollDetailFail(p)

\* The operations of conversationUtils alone, with two conversations and
\* the clock
RegistryNext ==
    \/ \E id \in Ids : StartInboundConversation(id)
    \/ \E id \in Ids, reason \in {"completed"} :
          EndInboundConversation(id, reason)
    \/ \E id \in Ids : UpdateConversationActivity(id)
    \/ SweepInactiveConversations(SweepTimeoutMinutes)
    \/ \E id \in Ids : DeleteTimer(id)
    \/ \E d \in ClockSteps : Advance(d)

(***************************************************************************)
(* Observers of the transcript channel (/transcript-ws, broadcastTranscript)*)
(***************************************************************************)
\* Number of observer sockets
MaxClients == 3
Clients == 1..MaxClients

NoBroadcast == [called |-> FALSE, subs |-> <<>>, throws |-> {},
                received |-> [c \in Clients |-> 0], error |-> FALSE]

InitObservers ==
    /\ transcriptClients = <<>>
    /\ clientReadyState = [c \in Clients |-> "none"]
    /\ lastBroadcast = NoBroadcast

\* transcriptClients.delete(client)
Without(set, c) == SelectSeq(set, LAMBDA x : x # c)

\* The /transcript-ws handler: transcriptClients.add(ws)
ObserverConnect(c) ==
    /\ clientReadyState[c] = "none"
    /\ \A x \in Clients : x < c => clientReadyState[x] # "none"
    /\ clientReadyState' = [clientReadyState EXCEPT ![c] = "open"]
    /\ transcriptClients' = Append(transcriptClients, c)
    /\ lastBroadcast' = NoBroadcast
    /\ UNCHANGED <<bridgeVars, pollVars, hangupVars, clientVars>>

\* The observer's socket leaves the open state; its close event is pending
ObserverSocketCloses(c) ==
    /\ clientReadyState[c] = "open"
    /\ clientReadyState' = [clientReadyState EXCEPT ![c] = "closed"]
    /\ lastBroadcast' = NoBroadcast
    /\ UNCHANGED <<bridgeVars, pollVars, hangupVars, clientVars, transcriptClients>>

\* ws.on("close") / ws.on("error"): transcriptClients.delete(ws)
ObserverCloseEvent(c) ==
    /\ clientReadyState[c] = "closed"
    /\ \E i \in 1..Len(transcriptClients) : transcriptClients[i] = c
    /\ transcriptClients' = Without(transcriptClients, c)
    /\ lastBroadcast' = NoBroadcast
    /\ UNCHANGED <<bridgeVars, pollVars, hangupVars, clientVars, clientReadyState>>

RECURSIVE BroadcastLoopAborting(_, _, _)
\* The loop as it would run without the try/catch around send: the first
\* send that throws ends the loop and the call
BroadcastLoopAborting(todo, acc, throws) ==
    IF todo = <<>> \/ acc.error THEN acc
    ELSE LET client == Head(todo)
         IN BroadcastLoopAborting(Tail(todo),
               IF clientReadyState[client] = "open"
               THEN IF client \in throws
                    THEN [acc EXCEPT !.error = TRUE]
                    ELSE [acc EXCEPT !.received[client] = @ + 1]
               ELSE [acc EXCEPT !.clients = Without(@, client)],
               throws)

RECURSIVE BroadcastLoopKeeping(_, _, _)
\* The loop as it would run without the else branch: a client that is not
\* open is skipped and stays subscribed
BroadcastLoopKeeping(todo, acc, throws) ==
    IF todo = <<>> THEN acc
    ELSE LET client == Head(todo)
         IN BroadcastLoopKeeping(Tail(todo),
               IF clientReadyState[client] = "open"
               THEN IF client \in throws
                    THEN [acc EXCEPT !.clients = Without(@, client)]
                    ELSE [acc EXCEPT !.received[client] = @ + 1]
               ELSE acc,
               throws)

RECURSIVE BroadcastLoop(_, _, _)
\* transcriptClients.forEach(client => ...): todo are the clients still to
\* visit, acc the subscriber set and the deliveries so far, throws the
\* clients whose send throws
BroadcastLoop(todo, acc, throws) ==
    IF todo = <<>> THEN acc
    ELSE LET client == Head(todo)
         IN BroadcastLoop(Tail(todo),
               IF clientReadyState[client] = "open"
               THEN IF client \in throws
                    THEN [acc EXCEPT !.clients = Without(@, client)]
                    ELSE [acc EXCEPT !.received[client] = @ + 1]
               ELSE [acc EXCEPT !.clients = Without(@, client)],
               throws)

\* broadcastTranscript(type, message, id), the sends of throws failing
BroadcastTranscript(throws) ==
    /\ transcriptClients # <<>>
    /\ \A c \in throws : /\ clientReadyState[c] = "open"
                         /\ \E i \in 1..Len(transcriptClients) :
                               transcriptClients[i] = c
    /\ LET r == BroadcastLoop(transcriptClients,
                              [clients |-> transcriptClients,
                               received |-> [c \in Clients |-> 0],
                               error |-> FALSE],
                              throws)
       IN /\ transcriptClients' = r.clients
          /\ lastBroadcast' = [called |-> TRUE, subs |-> transcriptClients,
                               throws |-> throws, received |-> r.received,
                               error |-> r.error]
    /\ UNCHANGED <<bridgeVars, pollVars, hangupVars, clientVars, clientReadyState>>

\* The observers and the broadcasts to them
BroadcastNext ==
    \/ \E c \in Clients : ObserverConnect(c)
    \/ \E c \in Clients : ObserverSocketCloses(c)
    \/ \E c \in Clients : ObserverCloseEvent(c)
    \/ \E throws \in SUBSET Clients : BroadcastTranscript(throws)

(***************************************************************************)
(* Hangup of an outbound call (POST /api/calls/hangup)                     *)
(***************************************************************************)
\* Handler invocations in flight at once
HangupSlots == {1, 2}

\* The provider's call statuses
CallStatuses == {"queued", "initiated", "ringing", "in-progress", "completed",
                 "busy", "failed", "no-answer", "canceled"}

\* The statuses a call can take next at the provider
NextStatuses(st) ==
    CASE st = "queued" -> {"initiated", "canceled", "failed"}
      [] st = "initiated" -> {"ringing", "canceled", "failed", "busy"}
      [] st = "ringing" -> {"in-progress", "canceled", "no-answer", "busy"}
      [] st = "in-progress" -> {"completed"}
      [] OTHER -> {}

\* No request in the slot
NoHangup == [pc |-> "idle", sid |-> Null, status |-> Null, update |-> Null,
             reply |-> 0]

InitHangup ==
    /\ twilioCalls = [c \in AllCalls |-> "queued"]
    /\ hangups = [h \in HangupSlots |-> NoHangup]

\* A handler that would answer every live call with the hang-up instruction
HangupActionTwimlOnly(status) ==
    IF status \in {"in-progress", "ringing", "queued", "initiated"}
    THEN "twiml_hangup"
    ELSE Null

\* The update the handler issues for the fetched status:
\* { twiml: '<Response><Hangup/></Response>' }, { status: 'completed' } or none
HangupAction(status) ==
    IF status = "in-progress" THEN "twiml_hangup"
    ELSE IF status \in {"ringing", "queued", "initiated"} THEN "status_completed"
    ELSE Null

\* The end of the handler: the tracked sockets of the call are closed if
\* open, the entry is deleted, call_ended is broadcast and 200 is sent.
\* The entry stores the connection object of the route as twilioWs; whether
\* that object reports readyState as its socket does is the choice closes
HangupFinish(h, closes) ==
    LET sid == hangups[h].sid
        conn == activeWebSocketConnections[sid]
        has == conn # NoConn
    IN /\ ai' = IF has /\ conn.elevenLabsWs # 0 /\ ai[conn.elevenLabsWs].st = "open"
                THEN [ai EXCEPT ![conn.elevenLabsWs].st = "closed"]
                ELSE ai
       /\ wsState' = IF has /\ closes /\ wsState[conn.twilioWs] = "open"
                     THEN [wsState EXCEPT ![conn.twilioWs] = "closing"]
                     ELSE wsState
       /\ activeWebSocketConnections' =
             [activeWebSocketConnections EXCEPT ![sid] = NoConn]
       /\ Quiet(<<Bc("call_ended", "Call terminated by user", sid)>>)

\* What a hangup step leaves alone besides the sockets it may close
HangupFrame ==
    /\ notFound' = Found
    /\ callStatus' = <<>>
    /\ UNCHANGED <<observerVars, clientVars, heard, endedAnnounced, activeInboundConversations,
                   conversationCache,
                   lastConversationCount, deleteTimers, now, polls,
                   transcriptLog, streamSid, callSid, streamStarted,
                   elevenLabsWs, audioBuffer, agentConfig, timerPending,
                   pendingUrl, twilioOut, ringingPhaseWebSocket,
                   activeElevenLabsCalls, globalAgentConfig,
                   elevenLabsConnected, connTimer, preStart, nAudio, attempts,
                   failed, stale>>

\* The request arrives: 400 without a callSid, else the call is fetched
HangupRequest(h, sid) ==
    /\ hangups[h].pc \in {"idle", "done"}
    /\ hangups' = [hangups EXCEPT
                     ![h] = IF sid = Null
                            THEN [NoHangup EXCEPT !.pc = "done", !.reply = 400]
                            ELSE [NoHangup EXCEPT !.pc = "fetch", !.sid = sid]]
    /\ Quiet(<<>>)
    /\ HangupFrame
    /\ UNCHANGED <<twilioCalls, ai, wsState, activeWebSocketConnections>>

\* twilioClient.calls(callSid).fetch() resolved: the update is chosen and
\* issued, or the handler runs to its end when the call needs none
HangupFetched(h, closes) ==
    /\ hangups[h].pc = "fetch"
    /\ LET status == twilioCalls[hangups[h].sid]
           update == HangupAction(status)
       IN IF update # Null
          THEN /\ hangups' = [hangups EXCEPT ![h].pc = "update",
                                             ![h].status = status,
                                             ![h].update = update]
               /\ Quiet(<<>>)
               /\ UNCHANGED <<ai, wsState, activeWebSocketConnections>>
          ELSE /\ hangups' = [hangups EXCEPT ![h].pc = "done",
                                             ![h].status = status,
                                             ![h].reply = 200]
               /\ HangupFinish(h, closes)
    /\ HangupFrame
    /\ UNCHANGED twilioCalls

\* A catch block that would release the call's sockets like the end of the
\* handler does
HangupCatchCleaning(h) == HangupFinish(h, TRUE)

\* What the catch block does besides answering: it logs
HangupCatch(h) ==
    /\ Quiet(<<>>)
    /\ UNCHANGED <<ai, wsState, activeWebSocketConnections>>

\* fetch() or update() rejected: the catch answers 500
HangupFails(h) ==
    /\ hangups[h].pc \in {"fetch", "update"}
    /\ hangups' = [hangups EXCEPT ![h].pc = "done", ![h].reply = 500]
    /\ HangupCatch(h)
    /\ HangupFrame
    /\ UNCHANGED twilioCalls

\* twilioClient.calls(callSid).update(...) resolved: the provider has ended
\* the call as result unless it had ended already
HangupUpdated(h, result, closes) ==
    /\ hangups[h].pc = "update"
    /\ twilioCalls' =
          [twilioCalls EXCEPT
              ![hangups[h].sid] = IF NextStatuses(@) = {} THEN @ ELSE result]
    /\ hangups' = [hangups EXCEPT ![h].pc = "done", ![h].reply = 200]
    /\ HangupFinish(h, closes)
    /\ HangupFrame

\* The call moves on at the provider
CallProgress(c, st) ==
    /\ st \in NextStatuses(twilioCalls[c])
    /\ twilioCalls' = [twilioCalls EXCEPT ![c] = st]
    /\ UNCHANGED <<bridgeVars, pollVars, observerVars, clientVars, hangups>>

\* Hangup requests against one call and its bridge
HangupNext ==
    \/ \E s \in Leg : Connect(s)
    \/ \E s \in Leg, cid \in Calls : Start(s, cid)
    \/ \E s \in Leg : SignedUrlOk(s)
    \/ \E a \in AiIds : AiOpen(a)
    \/ \E s \in Leg : TelephonyClose(s)
    \/ \E h \in HangupSlots, sid \in Calls \cup {Null} : HangupRequest(h, sid)
    \/ \E h \in HangupSlots, closes \in BOOLEAN : HangupFetched(h, closes)
    \/ \E h \in HangupSlots : HangupFails(h)
    \/ \E h \in HangupSlots, result \in {"completed", "canceled"},
          closes \in BOOLEAN : HangupUpdated(h, result, closes)
    \/ \E c \in Calls, st \in CallStatuses : CallProgress(c, st)

(***************************************************************************)
(* The client's transcript socket (client/js/callManager.js)               *)
(***************************************************************************)
\* WebSockets the client constructs at most
MaxClientSockets == 4

\* The close code of an intentional close
NormalClosure == 1000

\* Seconds between a close and the reconnect: setTimeout(..., 3000)
ReconnectDelay == 3

\* Close codes: normal, going away, abnormal (also a failed attempt)
CloseCodes == {NormalClosure, 1001, 1006}

\* No close event yet
NoCode == 0

\* new WebSocket(wsUrl)
NewClientSocket == [st |-> "connecting", code |-> NoCode]

\* init(): the constructor connects at once
\* hangUpCall invocations in flight at once (the button pressed again)
HangUpSlots == {1, 2}

\* The outcomes of POST /api/calls/hangup as the client sees them: success,
\* { success: false }, or fetch / response.json() throwing
HangUpOutcomes == {"success", "refused", "throws"}

\* No hangUpCall returned in the step
NoHangUp == [done |-> FALSE, active |-> FALSE, outcome |-> Null]

InitCall ==
    /\ isCallActive = FALSE
    /\ thisCallSid = Null
    /\ currentState = "idle"
    /\ mediaWs = Null
    /\ pendingCall = FALSE
    /\ hangUps = [k \in HangUpSlots |-> "idle"]
    /\ hungUp = NoHangUp

\* endCall(reason): isCallActive = false, setCallState(ENDED), then
\* cleanupCall(): the media socket is closed and dropped, callSid = null,
\* currentState = IDLE
EndCall ==
    /\ isCallActive' = FALSE
    /\ mediaWs' = Null
    /\ thisCallSid' = Null
    /\ currentState' = "idle"

\* hangUpCall as it would be without the endCall of its catch block, with a
\* makeHangupRequest that lets the failure through
EndsCallOnSuccess(outcome) == outcome = "success"

\* hangUpCall after await makeHangupRequest(): makeHangupRequest catches
\* every failure and returns, and endCall is called in the try block as in
\* the catch block
EndsCall(outcome) == TRUE

\* hangUpCall returns in this step
HangUpReturns(active, outcome) ==
    /\ hungUp' = [done |-> TRUE, active |-> active, outcome |-> outcome]
    /\ IF active /\ EndsCall(outcome)
       THEN EndCall
       ELSE /\ mediaWs' = IF active THEN Null ELSE mediaWs
            /\ UNCHANGED <<isCallActive, thisCallSid, currentState>>

\* The client after construction
InitClient ==
    /\ clientSockets = <<NewClientSocket>>
    /\ transcriptWs = 1
    /\ reconnectTimers = <<>>
    /\ InitCall

\* An onclose that would reconnect only after an abnormal close
ReconnectsAfterAbnormal(code) == code = 1006

\* onclose: if (event.code !== 1000)
Reconnects(code) == code # NormalClosure

\* transcriptWs.onopen: the connection is established
ClientSocketOpens(k) ==
    /\ k \in 1..Len(clientSockets)
    /\ clientSockets[k].st = "connecting"
    /\ clientSockets' = [clientSockets EXCEPT ![k].st = "open"]
    /\ UNCHANGED <<bridgeVars, pollVars, observerVars, hangupVars, callVars,
                   transcriptWs, reconnectTimers>>

\* transcriptWs.onclose with the code of the close event: the attempt
\* failed, the connection was lost, or a close initiated by either side
\* completed; the handler arms the reconnect timer
ClientSocketCloses(k, code) ==
    /\ k \in 1..Len(clientSockets)
    /\ clientSockets[k].st \in {"connecting", "open", "closing"}
    \* a socket that was never open cannot close normally
    /\ clientSockets[k].st = "connecting" => code = 1006
    /\ Reconnects(code) => Len(clientSockets) + Len(reconnectTimers)
                              < MaxClientSockets
    /\ clientSockets' = [clientSockets EXCEPT ![k].st = "closed", ![k].code = code]
    /\ reconnectTimers' = IF Reconnects(code)
                          THEN Append(reconnectTimers, ReconnectDelay)
                          ELSE reconnectTimers
    /\ UNCHANGED <<bridgeVars, pollVars, observerVars, hangupVars, callVars, transcriptWs>>

\* A second passes
ClientTick ==
    /\ \E i \in 1..Len(reconnectTimers) : reconnectTimers[i] > 0
    /\ reconnectTimers' = [i \in 1..Len(reconnectTimers) |->
                             IF reconnectTimers[i] > 0 THEN reconnectTimers[i] - 1
                             ELSE 0]
    /\ UNCHANGED <<bridgeVars, pollVars, observerVars, hangupVars, callVars,
                   clientSockets, transcriptWs>>

\* The body of connectTranscriptWebSocket
ConnectTranscriptWebSocket ==
    IF transcriptWs # 0 /\ clientSockets[transcriptWs].st = "open"
    THEN UNCHANGED <<clientSockets, transcriptWs>>
    ELSE /\ clientSockets' = Append(clientSockets, NewClientSocket)
         /\ transcriptWs' = Len(clientSockets) + 1

\* A reconnect timer that is due fires: connectTranscriptWebSocket()
ReconnectTimerFires(i) ==
    /\ i \in 1..Len(reconnectTimers)
    /\ reconnectTimers[i] = 0
    /\ reconnectTimers' = [j \in 1..(Len(reconnectTimers) - 1) |->
                             IF j < i THEN reconnectTimers[j]
                             ELSE reconnectTimers[j + 1]]
    /\ ConnectTranscriptWebSocket
    /\ UNCHANGED <<bridgeVars, pollVars, observerVars, hangupVars, callVars>>

\* destroy(): endCall or cleanupCall, transcriptWs.close(1000, 'Application closing')
ClientDestroy ==
    /\ transcriptWs # 0
    /\ clientSockets' =
          [clientSockets EXCEPT
              ![transcriptWs].st = IF @ \in {"connecting", "open"} THEN "closing"
                                   ELSE @]
    /\ transcriptWs' = 0
    /\ EndCall
    /\ hungUp' = NoHangUp
    /\ UNCHANGED <<bridgeVars, pollVars, observerVars, hangupVars, reconnectTimers,
                   pendingCall, hangUps>>

\* makeCall: connectMediaStream constructs the media socket, then the
\* outbound call is requested
MakeCall ==
    /\ ~pendingCall
    /\ mediaWs' = "open"
    /\ pendingCall' = TRUE
    /\ hungUp' = NoHangUp
    /\ UNCHANGED <<bridgeVars, pollVars, observerVars, hangupVars, clientSockets,
                   transcriptWs, reconnectTimers, isCallActive, thisCallSid,
                   currentState, hangUps>>

\* The response of /proxy-outbound-call: data.success or not
MakeCallAnswered(success, sid) ==
    /\ pendingCall
    /\ pendingCall' = FALSE
    /\ IF success
       THEN /\ thisCallSid' = sid
            /\ isCallActive' = TRUE
            /\ currentState' = "connecting"
       ELSE UNCHANGED <<thisCallSid, isCallActive, currentState>>
    /\ hungUp' = NoHangUp
    /\ UNCHANGED <<bridgeVars, pollVars, observerVars, hangupVars, clientSockets,
                   transcriptWs, reconnectTimers, mediaWs, hangUps>>

\* handleTranscriptMessage: 'call_started', or 'call_status' of an active call
CallStartedMessage ==
    /\ IF ~isCallActive
       THEN /\ isCallActive' = TRUE
            /\ currentState' = "connected"
       ELSE UNCHANGED <<isCallActive, currentState>>
    /\ hungUp' = NoHangUp
    /\ UNCHANGED <<bridgeVars, pollVars, observerVars, hangupVars, clientSockets,
                   transcriptWs, reconnectTimers, thisCallSid, mediaWs,
                   pendingCall, hangUps>>

\* handleTranscriptMessage: 'call_ended', 'error', or 'call_status' with a
\* terminal status
CallEndedMessage ==
    /\ IF isCallActive
       THEN EndCall
       ELSE UNCHANGED <<isCallActive, thisCallSid, currentState, mediaWs>>
    /\ hungUp' = NoHangUp
    /\ UNCHANGED <<bridgeVars, pollVars, observerVars, hangupVars, clientSockets,
                   transcriptWs, reconnectTimers, pendingCall, hangUps>>

\* hangUpCall(): returns at once without an active call; with a callSid it
\* awaits the server, without one makeHangupRequest only drops the media
\* socket and the call is ended
HangUpCall(k) ==
    /\ hangUps[k] = "idle"
    /\ \A x \in HangUpSlots : x < k => hangUps[x] # "idle"
    /\ IF ~isCallActive
       THEN /\ HangUpReturns(FALSE, Null)
            /\ UNCHANGED hangUps
       ELSE IF thisCallSid # Null
       THEN /\ hangUps' = [hangUps EXCEPT ![k] = "request"]
            /\ hungUp' = NoHangUp
            /\ UNCHANGED <<isCallActive, thisCallSid, currentState, mediaWs>>
       ELSE /\ HangUpReturns(TRUE, "success")
            /\ UNCHANGED hangUps
    /\ UNCHANGED <<bridgeVars, pollVars, observerVars, hangupVars, clientSockets,
                   transcriptWs, reconnectTimers, pendingCall>>

\* The fetch of makeHangupRequest settles: the server answered success, it
\* refused, or the request threw
HangUpAnswered(k, outcome) ==
    /\ hangUps[k] = "request"
    /\ hangUps' = [hangUps EXCEPT ![k] = "idle"]
    /\ HangUpReturns(TRUE, outcome)
    /\ UNCHANGED <<bridgeVars, pollVars, observerVars, hangupVars, clientSockets,
                   transcriptWs, reconnectTimers, pendingCall>>

\* The client's call: calls made, the server's messages, hang-ups, and the
\* page closing
CallNext ==
    \/ MakeCall
    \/ \E success \in BOOLEAN, sid \in AllCalls : MakeCallAnswered(success, sid)
    \/ CallStartedMessage
    \/ CallEndedMessage
    \/ ClientDestroy
    \/ \E k \in HangUpSlots : HangUpCall(k)
    \/ \E k \in HangUpSlots, outcome \in HangUpOutcomes : HangUpAnswered(k, outcome)

ClientNext ==
    \/ \E k \in 1..MaxClientSockets : ClientSocketOpens(k)
    \/ \E k \in 1..MaxClientSockets, code \in CloseCodes : ClientSocketCloses(k, code)
    \/ ClientTick
    \/ \E i \in 1..MaxClientSockets : ReconnectTimerFires(i)
    \/ ClientDestroy

\* Time passes and due timers run: the event loop of the browser
ClientFairness ==
    /\ WF_vars(ClientTick)
    /\ WF_vars(\E i \in 1..MaxClientSockets : ReconnectTimerFires(i))

\* Timers and poll ticks keep firing: the setInterval of the poller starts
\* tick after tick, every fetch of a tick settles and, again and again, with
\* an answer of the provider, and every pending setTimeout(delete, 5000) runs
PollFairness ==
    /\ WF_vars(\E p \in PollSlots : PollTick(p))
    /\ WF_vars(\E p \in PollSlots : PollListFail(p) \/ PollDetailFail(p))
    /\ SF_vars(\E p \in PollSlots, f \in SnapshotsOver(One) : PollListOk(p, f))
    /\ SF_vars(\E p \in PollSlots, n \in 0..MaxEvents : PollDetailOk(p, n))
    /\ \A id \in One : WF_vars(DeleteTimer(id))

(***************************************************************************)
(* Specifications                                                          *)
(***************************************************************************)
\* One event list of every kind, for the runs that are not about transcripts
SomeEvents == [i \in 1..MaxEvents |->
                 [type |-> "user_transcript", message |-> "hello"]]

\* The state after construction, with one event list at the provider
Init == InitBridge /\ InitPoll({SomeEvents}) /\ InitObservers /\ InitHangup
           /\ InitClient
\* The same, for every event list the provider can hold
InitLists == InitBridge /\ InitPoll(EventLists) /\ InitObservers /\ InitHangup
           /\ InitClient

\* One call leg of server/index.js
SpecBridge == Init /\ [][BridgeNext]_vars
\* Two telephony sockets of server/index.js
SpecPair == Init /\ [][PairNext]_vars
\* The audio path of routes/websocket.js
SpecAudio == Init /\ [][AudioNext]_vars
\* Two calls at once
SpecCalls == Init /\ [][CallsNext]_vars
\* One call leg of routes/websocket.js
SpecRoutes == Init /\ [][RoutesNext]_vars
\* Registry and poller around one conversation
SpecPoll == Init /\ [][PollNext]_vars
\* The same with timers and poll ticks that keep firing
SpecPollLive == Init /\ [][PollNext]_vars /\ PollFairness
\* The same, for every event list the provider can hold
SpecTranscript == InitLists /\ [][TranscriptNext]_vars
\* The registry operations on two conversations
SpecRegistry == Init /\ [][RegistryNext]_vars
\* The observers of the transcript channel
SpecHangup == Init /\ [][HangupNext]_vars

SpecClient == Init /\ [][ClientNext]_vars /\ ClientFairness
\* The client's call
SpecCall == Init /\ [][CallNext]_vars

SpecBroadcast == Init /\ [][BroadcastNext]_vars

(***************************************************************************)
(* Claims about the bridge                                                 *)
(***************************************************************************)
\* C1: for every call leg at most one AI WebSocket is ever constructed,
\* whatever the interleaving of the delayed timer, `start` and the
\* signed-URL fetch.
C1_AtMostOneAiSession ==
    \A s \in Sockets : Cardinality(AiOf(s)) <= 1

\* C2: once the telephony socket of a leg has closed, no AI socket created
\* for that leg is open.
C2_NoAiSocketOutlivesLeg ==
    \A s \in Sockets : wsState[s] = "closed" =>
        \A a \in AiOf(s) : ai[a].st # "open"

\* The media frames that Flush sends for the payloads ps on stream sid
FramesOf(ps, sid) == [i \in 1..Len(ps) |-> MediaFrame(sid, ps[i])]

\* C3: the AI audio frames that arrive before `start` are queued in arrival
\* order and nothing is sent; on `start` they are sent as media frames with
\* the new stream id in exactly that order, none lost or duplicated, and the
\* queue is then empty.
C3_BufferedAudioFlushedInOrder ==
    \A s \in Sockets :
        /\ ~streamStarted[s] =>
              audioBuffer[s] = preStart[s] /\ twilioOut[s] = <<>>
        /\ streamStarted[s] =>
              /\ audioBuffer[s] = <<>>
              /\ Len(twilioOut[s]) >= Len(preStart[s])
              /\ SubSeq(twilioOut[s], 1, Len(preStart[s]))
                    = FramesOf(preStart[s], streamSid[s])

\* C3 witness: two frames were buffered before `start` and have been flushed
C3_Witness ==
    \E s \in Sockets :
        /\ streamStarted[s]
        /\ Len(preStart[s]) >= 2
        /\ Len(twilioOut[s]) >= 2
        /\ audioBuffer[s] = <<>>

\* C5: after `start` arrived on the answered socket of a call and every
\* delayed timer has run, a socket of the call that was open and unanswered
\* at that `start` is no longer open.
C5_StaleRingingSocketClosed ==
    \A r \in stale :
        (~streamStarted[r] /\ \A s \in Sockets : ~timerPending[s])
            => wsState[r] # "open"

\* C10: once a setup attempt of a leg has failed, no step starts another
\* setup attempt for that leg.
C10_NoRetryAfterFailure ==
    [][\A s \in Sockets : failed[s] => attempts'[s] = attempts[s]]_vars
(***************************************************************************)
(* Claims about the registry and the poller                                *)
(***************************************************************************)
\* An event that processTranscriptEvent turns into a broadcast
Recognised(e) ==
    /\ e.message # ""
    /\ e.type \in {"user_transcript", "user_message", "user_response",
                   "agent_response", "agent_message", "assistant_response",
                   "agent_response_correction"}

\* The transcript broadcast an observer must see for a recognised event
BroadcastFor(e, id) ==
    [type |-> IF e.type \in {"user_transcript", "user_message", "user_response"}
              THEN "user_transcript" ELSE "agent_response",
     message |-> [corrected |-> e.type = "agent_response_correction",
                  text |-> e.message],
     id |-> id]

\* The events of the provider's list up to the cursor of id
Consumed(id) == SubSeq(provEvents, 1, conversationCache[id] + 1)

C6_RemovedOnlyAfterGrace ==
    [][\A id \in Ids :
          (Tracked(activeInboundConversations, id)
             /\ ~Tracked(activeInboundConversations', id))
          => /\ activeInboundConversations[id].status = "ended"
             /\ deleteTimers[id] > 0
             /\ deleteTimers'[id] = deleteTimers[id] - 1]_vars

\* The number of broadcasts of the given type for id in the sequence em
CountOf(em, type, id) ==
    Cardinality({i \in 1..Len(em) : em[i].type = type /\ em[i].id = id})

\* C7: the tick that finds a locally active conversation absent from its
\* snapshot forces it to ended: status ended, one ended broadcast for its id,
\* one deletion timer scheduled.
C7_AbsentActiveForcedToEnded ==
    [][tickIds'.done =>
          \A id \in Ids :
             (activeInboundConversations[id].status = "active"
                /\ id \notin tickIds'.ids)
             => /\ activeInboundConversations'[id].status = "ended"
                /\ CountOf(emitted', "inbound_call_ended", id) = 1
                /\ deleteTimers'[id] = deleteTimers[id] + 1]_vars

\* C8: a step broadcasts a status-change event for a conversation only if it
\* changes the cached status of that conversation.
C8_StatusBroadcastOnlyOnChange ==
    [][\A id \in Ids :
          CountOf(emitted', "conversation_status_change", id) > 0
          => activeInboundConversations'[id].status
                # activeInboundConversations[id].status]_vars

\* C9: the detail of a conversation is requested only by the tick in which
\* its status becomes terminal, not by a tick that finds it terminal already.
C9_DetailFetchedOnce ==
    [][\A id \in Ids :
          fetched' = id => activeInboundConversations[id].status # "done"]_vars
(***************************************************************************)
(* Claims about AI-session setup, failure and initialisation               *)
(***************************************************************************)
\* C11: on an open connection without a setup attempt so far, setup starts
\* on the step in which the 1-second timer fires, and it starts at once on
\* the step in which a configure_agent message is received.
C11_SetupOnTimerOrConfiguration ==
    [][\A s \in Sockets :
          (wsState[s] = "open" /\ attempts[s] = 0)
          => /\ DelayedTimer(s) => attempts'[s] = 1
             /\ \A cfg \in {"custom", Null} :
                   ConfigureAgent(s, cfg) => attempts'[s] = 1]_vars
\* C12: the step in which opening the AI session of a leg fails (the
\* signed-URL fetch fails or the connecting socket errors) broadcasts a
\* call_status event and leaves the telephony socket of the leg as it was.
C12_SetupFailureBroadcast ==
    [][\A s \in Sockets :
          (\/ SignedUrlFail(s)
           \/ \E a \in AiIds : AiError(a) /\ ai[a].leg = s /\ ai[a].st = "connecting")
          => /\ callStatus' # <<>>
             /\ wsState'[s] = wsState[s]]_vars
\* The number of initialisation messages in the sequence of sent messages
Inits(sent) == Cardinality({i \in 1..Len(sent) : sent[i] = "init"})

\* C13: on every AI session the initialisation message is sent exactly once
\* and first: an open session has been sent it, and whatever was sent on a
\* session starts with it and does not repeat it.
C13_InitSentOnceAndFirst ==
    \A a \in 1..Len(ai) :
        /\ ai[a].st = "open" => ai[a].sent # <<>>
        /\ ai[a].sent # <<>> => ai[a].sent[1] = "init" /\ Inits(ai[a].sent) = 1
(***************************************************************************)
(* Claims about the poller's filter and the registry operations            *)
(***************************************************************************)
\* The registry and the broadcasts that pollActiveConversations produces
\* from the current state when its list fetch answers with the snapshot f,
\* up to the end of the tick or to its first detail fetch
TickOutcome(f) ==
    LET snap == Snapshot(f)
        ids == {snap[i].id : i \in 1..Len(snap)}
        r == ProcessLoop(activeInboundConversations,
                         IF Len(snap) # lastConversationCount
                         THEN <<Bc("conversation_count_update", "count", Null)>>
                         ELSE <<>>,
                         snap)
        gone == Absent(r.reg, ids)
        order == OrderedIds(gone)
    IN IF Len(snap) = 0
       THEN [reg |-> ClearRegistry(activeInboundConversations), em |-> <<>>]
       ELSE IF r.cur # Null
       THEN [reg |-> r.reg, em |-> r.em]
       ELSE [reg |-> [id \in Ids |-> IF id \in gone
                                     THEN [r.reg[id] EXCEPT !.status = "ended"]
                                     ELSE r.reg[id]],
             em |-> r.em \o [i \in 1..Len(order) |->
                               Bc("inbound_call_ended", "Inbound call ended",
                                  order[i])]]

\* The snapshots f and g list the tracked conversations alike
SameOnTracked(f, g) ==
    \A x \in Ids : Tracked(activeInboundConversations, x) => f[x] = g[x]

\* C14: whenever a tick awaits its snapshot, two snapshots that differ only
\* in conversations that are not tracked lead to the same registry and the
\* same broadcasts.
C14_UntrackedConversationsIgnored ==
    (\E p \in PollSlots : polls[p].pc = "list") =>
        \A f, g \in SnapshotChoices :
            SameOnTracked(f, g) => TickOutcome(f) = TickOutcome(g)
(***************************************************************************)
(* Claims about the broadcast to observers                                 *)
(***************************************************************************)
\* The clients of the sequence q
Members(q) == {q[i] : i \in 1..Len(q)}

\* The subscribers of the last broadcast that were open
OpenSubs == {c \in Members(lastBroadcast.subs) : clientReadyState[c] = "open"}

\* C15: a broadcast in which no send fails delivers the frame once to every
\* subscriber that is open, removes every subscriber that is not open from
\* the subscriber set, keeps the others in their order, and raises no error.
C15_NonOpenObserversPruned ==
    (lastBroadcast.called /\ lastBroadcast.throws = {}) =>
        /\ \A c \in Clients :
              lastBroadcast.received[c] = IF c \in OpenSubs THEN 1 ELSE 0
        /\ transcriptClients =
              SelectSeq(lastBroadcast.subs, LAMBDA c : c \in OpenSubs)
        /\ ~lastBroadcast.error

\* C15 witness: a broadcast to three subscribers of which exactly one was
\* not open
C15_Witness ==
    /\ lastBroadcast.called
    /\ lastBroadcast.throws = {}
    /\ Len(lastBroadcast.subs) = 3
    /\ Cardinality(OpenSubs) = 2
    /\ Len(transcriptClients) = 2

\* C16: when the send to some observers throws during a broadcast, every
\* other open subscriber still receives the frame exactly once, the failing
\* observers are removed from the subscriber set, and the call does not fail.
C16_SendFailureIsolated ==
    (lastBroadcast.called /\ lastBroadcast.throws # {}) =>
        /\ \A c \in OpenSubs \ lastBroadcast.throws :
              lastBroadcast.received[c] = 1 /\ c \in Members(transcriptClients)
        /\ \A c \in lastBroadcast.throws :
              lastBroadcast.received[c] = 0 /\ c \notin Members(transcriptClients)
        /\ ~lastBroadcast.error

\* C16 witness: the send to the first of three open subscribers threw and
\* the two after it received the frame
C16_Witness ==
    /\ lastBroadcast.called
    /\ Len(lastBroadcast.subs) = 3
    /\ lastBroadcast.throws = {lastBroadcast.subs[1]}
    /\ Cardinality(OpenSubs) = 3
    /\ Len(transcriptClients) = 2
\* C17: start on an id that is already tracked returns the existing record
\* and changes neither that record nor the rest of the registry.
C17_StartIdempotent ==
    [][\A id \in Ids :
          (Tracked(activeInboundConversations, id) /\ StartInboundConversation(id))
          => /\ activeInboundConversations' = activeInboundConversations
             /\ started' = activeInboundConversations[id]
             /\ deleteTimers' = deleteTimers
             /\ conversationCache' = conversationCache]_vars

\* C17 witness: start has just returned a record that had been touched or
\* ended before, hence one that existed already
C17_Witness ==
    \E id \in Ids :
        /\ started # NoRec
        /\ started = activeInboundConversations[id]
        /\ started.messageCount >= 1 \/ started.status = "ended"

\* C18: sweep(timeoutMinutes) ends with reason "timeout", and broadcasts one
\* ended event for, every tracked conversation that is active and whose last
\* activity is more than the timeout ago; it leaves every other record as
\* it was and broadcasts nothing for it.
C18_SweepEndsOnlyInactive ==
    [][SweepInactiveConversations(SweepTimeoutMinutes) =>
          \A id \in Ids :
             LET rec == activeInboundConversations[id]
                 after == activeInboundConversations'[id]
             IN IF /\ rec.status = "active"
                   /\ now - rec.lastActivity > SweepTimeoutMinutes
                THEN /\ after.status = "ended"
                     /\ after.endReason = "timeout"
                     /\ after.lastActivity = rec.lastActivity
                     /\ after.messageCount = rec.messageCount
                     /\ CountOf(emitted', "inbound_call_ended", id) = 1
                ELSE /\ after = rec
                     /\ CountOf(emitted', "inbound_call_ended", id) = 0]_vars

\* C18 witness: the sweep has just ended a conversation idle for 6 minutes
\* and left alone one idle for 3 minutes
C18_Witness ==
    \E x, y \in Ids :
        /\ Len(emitted) = 1
        /\ emitted[1] = Bc("inbound_call_ended", "Call ended due to inactivity", x)
        /\ activeInboundConversations[x].endReason = "timeout"
        /\ now - activeInboundConversations[x].lastActivity = 6
        /\ activeInboundConversations[y].status = "active"
        /\ now - activeInboundConversations[y].lastActivity = 3
\* C19: the status of every tracked conversation is active or ended.
C19_StatusActiveOrEnded ==
    \A id \in Ids :
        Tracked(activeInboundConversations, id)
        => activeInboundConversations[id].status \in {"active", "ended"}

\* C20: while a conversation stays tracked, no step decreases its
\* transcript cursor, whatever the length of the event list a tick fetches.
C20_CursorMonotonic ==
    [][\A id \in Ids :
          (Tracked(activeInboundConversations, id)
             /\ Tracked(activeInboundConversations', id))
          => conversationCache'[id] >= conversationCache[id]]_vars

\* C20 witness: a tick has just processed an event list shorter than the
\* cursor of a tracked conversation, and the cursor stayed
C20_Witness ==
    /\ detail.id # Null
    /\ Tracked(activeInboundConversations, detail.id)
    /\ detail.before >= 1
    /\ detail.n - 1 < detail.before
    /\ conversationCache[detail.id] = detail.before
(***************************************************************************)
(* Claims about terminal signals, failed ticks and frame conditions        *)
(***************************************************************************)
\* The statuses that say a conversation is over: 'ended' written by the
\* registry operations, 'done' reported by the provider
Terminal == {"ended", "done"}

\* C21: once a terminal signal has been recorded for a conversation, a later
\* signal for the same id changes neither its terminal status nor its end
\* reason for as long as the record is tracked.
C21_FirstTerminalSignalWins ==
    [][\A id \in Ids :
          (activeInboundConversations[id].status \in Terminal
             /\ Tracked(activeInboundConversations', id))
          => /\ activeInboundConversations'[id].status
                   = activeInboundConversations[id].status
             /\ activeInboundConversations'[id].endReason
                   = activeInboundConversations[id].endReason]_vars
\* C22: after a tick whose list fetch answered with an empty snapshot, the
\* registry holds no active conversation.
C22_EmptySnapshotLeavesNoneActive ==
    (tickIds.done /\ tickIds.ids = {})
       => \A id \in Ids : activeInboundConversations[id].status # "active"

\* An empty snapshot ended a tick while a conversation was active
C22_Witness ==
    /\ tickIds.done
    /\ tickIds.ids = {}
    /\ "c1" \in tickIds.cleared
    /\ ~Tracked(activeInboundConversations, "c1")

\* C23: a tick whose list fetch throws or answers with a non-OK status
\* changes neither the registry nor any cursor, broadcasts nothing, and
\* leaves its timer slot free for the next firing of the interval.
C23_FailedTickChangesNothing ==
    [][\A p \in PollSlots :
          PollListFail(p)
          => /\ activeInboundConversations' = activeInboundConversations
             /\ conversationCache' = conversationCache
             /\ lastConversationCount' = lastConversationCount
             /\ deleteTimers' = deleteTimers
             /\ transcriptLog' = transcriptLog
             /\ emitted' = <<>>
             /\ polls'[p] = IdleTask
             /\ \A q \in PollSlots \ {p} : polls'[q] = polls[q]]_vars

\* A list fetch failed while a conversation was tracked and had a cursor
C23_Witness ==
    /\ tickIds.failed
    /\ activeInboundConversations["c1"].status = "active"
    /\ conversationCache["c1"] >= 0
    /\ \E p \in PollSlots : polls[p].pc = "idle"
\* C24: ending or touching an id that the registry does not track changes
\* nothing: the registry is as before, no record is created, no deletion
\* timer is scheduled and nothing is broadcast.
C24_UntrackedEndAndTouchAreNoOps ==
    [][\A id \in Ids :
          (/\ ~Tracked(activeInboundConversations, id)
           /\ \/ EndInboundConversation(id, "completed")
              \/ UpdateConversationActivity(id))
          => /\ activeInboundConversations' = activeInboundConversations
             /\ deleteTimers' = deleteTimers
             /\ conversationCache' = conversationCache
             /\ transcriptLog' = transcriptLog
             /\ emitted' = <<>>]_vars

\* An end call has just missed c1 while c2 is tracked and active
C24_Witness ==
    /\ notFound = [op |-> "end", id |-> "c1"]
    /\ ~Tracked(activeInboundConversations, "c1")
    /\ deleteTimers["c1"] = 0
    /\ activeInboundConversations["c2"].status = "active"
\* C29: touching a tracked conversation sets its last activity to the
\* current time and adds exactly one to its message count; its other
\* fields, the other records, the deletion timers, the cursors and the
\* transcripts stay as they were and nothing is broadcast.
C29_TouchFrame ==
    [][\A id \in Ids :
          (Tracked(activeInboundConversations, id)
             /\ UpdateConversationActivity(id))
          => /\ activeInboundConversations'[id] =
                   [activeInboundConversations[id] EXCEPT
                       !.lastActivity = now,
                       !.messageCount = activeInboundConversations[id].messageCount + 1]
             /\ \A other \in Ids \ {id} :
                   activeInboundConversations'[other]
                      = activeInboundConversations[other]
             /\ deleteTimers' = deleteTimers
             /\ conversationCache' = conversationCache
             /\ transcriptLog' = transcriptLog
             /\ now' = now
             /\ emitted' = <<>>]_vars

\* The ended conversation c1 has been touched twice, the last time now and
\* later than the activity of c2, and is still ended
C29_Witness ==
    /\ activeInboundConversations["c1"].messageCount = 2
    /\ activeInboundConversations["c1"].lastActivity = now
    /\ activeInboundConversations["c1"].status = "ended"
    /\ activeInboundConversations["c1"].endReason = "completed"
    /\ Tracked(activeInboundConversations, "c2")
    /\ activeInboundConversations["c2"].lastActivity < now
\* The ids of the snapshot that the tick of slot p works with after a step
\* of that tick
SnapshotIdsAfter(p) == IF tickIds'.done THEN tickIds'.ids ELSE polls'[p].ids

\* C28: a step of a tick whose snapshot does not list a tracked conversation
\* that is already terminal does nothing about that conversation: its
\* record stays as it is, no broadcast carries its id and no deletion timer
\* is added for it.
C28_TerminalAbsentUntouched ==
    [][\A p \in PollSlots :
          (polls[p].pc \in {"list", "detail"} /\ polls'[p] # polls[p]
             /\ ~tickIds'.failed)
          => \A id \in Ids :
                (/\ Tracked(activeInboundConversations, id)
                 /\ activeInboundConversations[id].status \in Terminal
                 /\ id \notin SnapshotIdsAfter(p))
                => /\ activeInboundConversations'[id]
                         = activeInboundConversations[id]
                   /\ deleteTimers'[id] = deleteTimers[id]
                   /\ \A i \in 1..Len(emitted') : emitted'[i].id # id]_vars
(***************************************************************************)
(* Claims about the AI connection: its timeout and its keepalive           *)
(***************************************************************************)
\* C25: when the 10 s timer of a connect fires and the socket is not open,
\* the socket is closed and a connect still pending is rejected, which the
\* caller reports as a failure; a settled connect never changes its outcome;
\* a connect that resolved is not touched by the timer, and its open socket
\* stays open.
C25_ConnectTimeout ==
    [][\A a \in 1..Len(ai) :
          /\ ai[a].connect \in {"resolved", "rejected"}
                => ai'[a].connect = ai[a].connect
          /\ (WsConnTimeout(a) /\ ai[a].st # "open")
                => /\ ai'[a].st = "closed"
                   /\ ai'[a].connect # "pending"
                   /\ ai[a].connect = "pending"
                         => /\ ai'[a].connect = "rejected"
                            /\ failed'[ai[a].leg]
                            /\ ~elevenLabsConnected'[ai[a].leg]
                            /\ callStatus' = <<"Failed to connect to AI service">>
          /\ (WsConnTimeout(a) /\ ai[a].connect = "resolved")
                => /\ ai[a].st = "open" => ai' = ai
                   /\ failed' = failed
                   /\ elevenLabsConnected' = elevenLabsConnected
                   /\ elevenLabsWs' = elevenLabsWs
                   /\ callStatus' = <<>>]_vars

\* The timer of the only AI socket has just fired before the socket opened:
\* the socket is closed, the connect rejected and the failure reported
C25_Witness ==
    /\ Len(ai) = 1
    /\ ai[1].connect = "rejected"
    /\ ai[1].st = "closed"
    /\ ai[1].sent = <<>>
    /\ 1 \notin connTimer
    /\ failed[ai[1].leg]
    /\ callStatus = <<"Failed to connect to AI service">>
    /\ \A s \in Sockets : pendingUrl[s] = 0
\* The pongs among the messages sent on a session, in order
Pongs(sent) == SelectSeq(sent, LAMBDA m : m \in {Pong[e] : e \in PingIds})

\* C26: a ping with an event id that an open AI session receives is answered
\* by one pong with that id on that same session and by nothing on any other
\* session, and the pongs of a session change only in a step in which that
\* session receives a ping.
C26_PongAnswersPingOnItsSession ==
    [][\A a \in 1..Len(ai) :
          /\ \A e \in PingIds :
                AiPing(a, e)
                => /\ ai'[a].sent = Append(ai[a].sent, Pong[e])
                   /\ \A b \in 1..Len(ai) \ {a} : ai'[b].sent = ai[b].sent
          /\ Pongs(ai'[a].sent) # Pongs(ai[a].sent)
                => \E e \in PingIds : AiPing(a, e)]_vars
(***************************************************************************)
(* Claims about the hangup of a call                                       *)
(***************************************************************************)
\* C27: the update a hangup issues follows the status it fetched: the
\* hang-up instruction for a call in progress, status completed for a call
\* that is ringing, queued or initiated, and no update for a call whose
\* status is terminal.
C27_HangupByCallStatus ==
    \A h \in HangupSlots :
       /\ hangups[h].status = "in-progress" => hangups[h].update = "twiml_hangup"
       /\ hangups[h].status \in {"ringing", "queued", "initiated"}
             => hangups[h].update = "status_completed"
       /\ hangups[h].status \in {"completed", "busy", "failed", "no-answer",
                                 "canceled"}
             => hangups[h].update = Null
       /\ hangups[h].update # Null => hangups[h].status # Null

\* One hangup found the call ringing and ended it with status completed,
\* another found it terminal and answered without an update
C27_Witness ==
    /\ hangups[1] = [pc |-> "done", sid |-> "CA1", status |-> "ringing",
                     update |-> "status_completed", reply |-> 200]
    /\ hangups[2].pc = "done"
    /\ hangups[2].status \in {"completed", "canceled"}
    /\ hangups[2].update = Null
    /\ hangups[2].reply = 200
(***************************************************************************)
(* Claims about the client's transcript socket                             *)
(***************************************************************************)
\* C30: whenever a transcript socket of the client has closed with a code
\* other than 1000, the client eventually constructs a further socket; and
\* once its latest socket has closed with code 1000, the client never
\* constructs another one.
C30_ReconnectUnlessNormalClosure ==
    /\ \A k \in 1..MaxClientSockets :
          (k <= Len(clientSockets) /\ clientSockets[k].st = "closed"
              /\ clientSockets[k].code # NormalClosure)
          ~> (Len(clientSockets) > k)
    /\ [][\A k \in 1..MaxClientSockets :
             (k = Len(clientSockets) /\ clientSockets[k].st = "closed"
                /\ clientSockets[k].code = NormalClosure)
             => Len(clientSockets') = k]_vars

\* The first socket was lost, the client reconnected, and the second socket
\* is open
C30_Witness ==
    /\ Len(clientSockets) = 2
    /\ clientSockets[1] = [st |-> "closed", code |-> 1006]
    /\ clientSockets[2].st = "open"
    /\ transcriptWs = 2
    /\ reconnectTimers = <<>>

\* The indexes (from 0) of the provider's list that the detail processed by
\* the step consumed: those beyond the cursor the step read
ConsumedByStep == {i \in 0..(MaxEvents - 1) : detail'.before < i /\ i < detail'.n}

\* C31: overlapping poll ticks never broadcast the same transcript event
\* twice: a step that processes the detail of a conversation broadcasts no
\* event that an earlier step already consumed for the conversation
\* registered under that id.
C31_NoEventBroadcastTwice ==
    [][detail'.id # Null =>
          \A i \in ConsumedByStep :
             Recognised(provEvents[i + 1]) => i > heard[detail'.id]]_vars

\* C32: with several calls in progress, a `start` of one call closes no
\* socket of another call: a socket that the step of `start` on s closes
\* was opened for the call of s.
C32_StartClosesOwnCallOnly ==
    [][\A s \in Sockets, r \in Sockets :
          (Start(s, CallOf[s]) /\ wsState[r] = "open" /\ wsState'[r] # "open")
             => CallOf[r] = CallOf[s]]_vars

\* C33: once the status of a conversation is ended, no step makes it
\* non-ended while the record is tracked (the provider's 'done' counted as
\* ended too).
C33_EndedStaysEnded ==
    [][\A id \in Ids :
          (activeInboundConversations[id].status = "ended"
             /\ Tracked(activeInboundConversations', id))
          => activeInboundConversations'[id].status \in Terminal]_vars

\* C34: with timers and poll ticks that keep firing, every tracked
\* conversation that has reached a terminal status (ended by a registry
\* operation or a tick, or reported done by the provider) is eventually
\* removed from the registry.
C34_TerminalEventuallyRemoved ==
    \A id \in Ids :
        (Tracked(activeInboundConversations, id)
           /\ activeInboundConversations[id].status \in Terminal)
        ~> ~Tracked(activeInboundConversations, id)

\* C35: a deletion timer removes only the ended record it was scheduled
\* for: the record that a firing timer removes is never one that is active
\* at that moment (a conversation registered again under the same id).
C35_TimerRemovesNoActiveRecord ==
    [][\A id \in Ids :
          (DeleteTimer(id) /\ Tracked(activeInboundConversations, id))
             => activeInboundConversations[id].status # "active"]_vars

\* The telephony sockets of call c whose close handler has not run yet
LiveSockets(c) == {s \in Sockets : callSid[s] = c /\ wsState[s] \in {"open", "closing"}}

\* C36: whenever no telephony socket is open for a call id, the id is in
\* neither the set of calls with an active AI session nor the
\* socket-tracking map.
C36_NoSocketNoTracking ==
    \A c \in AllCalls :
        LiveSockets(c) = {}
           => /\ c \notin activeElevenLabsCalls
              /\ activeWebSocketConnections[c] = NoConn

\* C37: every conversation that a step removes from the registry had an
\* ended event broadcast for its id, before the step or by the step itself,
\* whichever path removes it.
C37_RemovedAfterEndedBroadcast ==
    [][\A id \in Ids :
          (Tracked(activeInboundConversations, id)
             /\ ~Tracked(activeInboundConversations', id))
          => id \in endedAnnounced']_vars

\* The payloads of the media frames among the frames out, in the order sent
RECURSIVE MediaPayloads(_)
MediaPayloads(out) ==
    IF out = <<>> THEN <<>>
    ELSE IF Head(out).event = "media"
         THEN <<Head(out).payload>> \o MediaPayloads(Tail(out))
         ELSE MediaPayloads(Tail(out))

\* C38: over a whole call the media frames sent to the telephony socket are
\* the AI audio frames in their arrival order (frames are numbered as they
\* arrive): buffered frames first, later frames after them, none lost while
\* the socket is open; before `start` nothing is sent, and every media or
\* clear frame carries the stream id that `start` assigned.
C38_MediaInArrivalOrder ==
    \A s \in Leg :
        LET sent == MediaPayloads(twilioOut[s])
        IN /\ ~streamStarted[s] => twilioOut[s] = <<>>
           /\ \A i \in 1..Len(twilioOut[s]) : twilioOut[s][i].streamSid = StreamOf(s)
           /\ sent = [i \in 1..Len(sent) |-> i]
           /\ (streamStarted[s] /\ wsState[s] = "open") => Len(sent) = nAudio

\* C38 witness: a frame buffered before `start` was flushed, a frame that
\* arrived after `start` follows it, and a clear frame was sent
C38_Witness ==
    \E s \in Leg :
        /\ streamStarted[s]
        /\ Len(preStart[s]) >= 1
        /\ Len(MediaPayloads(twilioOut[s])) > Len(preStart[s])
        /\ Clears(twilioOut[s]) # {}

C40_HangUpAlwaysEndsCall ==
    [][hungUp'.done =>
          IF hungUp'.active
          THEN /\ isCallActive' = FALSE
               /\ thisCallSid' = Null
               /\ currentState' = "idle"
          ELSE <<isCallActive, thisCallSid, currentState, mediaWs, pendingCall, hangUps>>'
                  = <<isCallActive, thisCallSid, currentState, mediaWs, pendingCall, hangUps>>]_vars

\* C40 witness: a hangUpCall on an active call has returned after the
\* server refused the request, and the client is idle without a call
C40_Witness ==
    /\ hungUp.done
    /\ hungUp.active
    /\ hungUp.outcome = "refused"
    /\ ~isCallActive
    /\ thisCallSid = Null
    /\ currentState = "idle"
====
